---- MODULE Spec2Model ----
(***************************************************************************)
(* Lazor game solver: blocks.py (block state machine), board.py (board     *)
(* aggregate), solver.py (beam simulator test_solution and backtracking    *)
(* search solve).                                                          *)
(*                                                                         *)
(* Python objects are references: the model keeps every block object in a  *)
(* heap (object id -> block record); a board holds lists of object ids.    *)
(* Cells (i,j) and lattice points (x,y) are 0-based as in the source;      *)
(* TLA+ sequences are 1-based, so grid[i+1][j+1] is the source's           *)
(* grid[i][j].                                                             *)
(***************************************************************************)
EXTENDS Integers, Sequences, FiniteSets, TLC

VARIABLES
    heap,         \* object id -> block record (the Block instances alive)
    board,        \* the live Board instance
    phase,        \* "idle" | "solving" | "testing": what the caller is running
    calls,        \* number of solve calls started on this board
    targets,      \* solve: targets = set(board.points)
    free_counts,  \* solve: the free_counts dict shared by all backtrack frames
    stack,        \* solve: the backtrack call stack, innermost frame last
    ret,          \* solve: value returned by the backtrack call that just ended
    result,       \* value returned by the last finished solve call
    sim,          \* test_solution: locals of the running (or last) call
    hist          \* observations of what the calls did (not program state)

vars == <<heap, board, phase, calls, targets, free_counts, stack, ret, result, sim, hist>>

(***************************************************************************)
(* Values                                                                  *)
(***************************************************************************)
None == "None"

\* Return values of backtrack and solve: Python's None, a list of
\* (orig_pos, class name) pairs, or no value waiting to be consumed.
RetNone == [is |-> "None", list |-> <<>>]
RetList(l) == [is |-> "list", list |-> l]
Pending == [is |-> "Pending", list |-> <<>>]

BlockTypes == <<"A", "B", "C">>

ClassName(block_type) ==
    CASE block_type = "A" -> "ReflectBlock"
      [] block_type = "B" -> "OpaqueBlock"
      [] block_type = "C" -> "RefractBlock"

Abs(n) == IF n < 0 THEN -n ELSE n

Min4(a, b, c, d) ==
    LET m1 == IF a <= b THEN a ELSE b
        m2 == IF c <= d THEN c ELSE d
    IN  IF m1 <= m2 THEN m1 ELSE m2

SeqToSet(s) == {s[k] : k \in 1..Len(s)}

Restrict(f, S) == [k \in S |-> f[k]]

(***************************************************************************)
(* blocks.py                                                               *)
(***************************************************************************)

\* Block.__init__ / RefractBlock.__init__: a block not yet placed.  Only
\* RefractBlock has the attribute has_refracted; the other classes carry
\* FALSE here and never read or write it.
NewBlock(kind, fixed) ==
    [kind |-> kind, fixed |-> fixed, top |-> None, left |-> None,
     bottom |-> None, right |-> None, orig_pos |-> None,
     has_refracted |-> FALSE]

set_boundaries(b, top, left, bottom, right) ==
    [b EXCEPT !.top = top, !.left = left, !.bottom = bottom, !.right = right]

\* Block.within_boundaries for the point (x/den, y/den): the simulator tests
\* integer points (den = 1) and the point x + 0.1*dx (den = 10).
within_boundaries(b, x, y, den) ==
    /\ b.left * den <= x /\ x <= b.right * den
    /\ b.top * den <= y /\ y <= b.bottom * den

\* Mutant of reflect_beam: a tie between a left/right side and a top/bottom
\* side flips dy (the top/bottom test comes first).
reflect_beam_vertical_first(b, beam_position, beam_direction) ==
    LET x == beam_position[1]
        y == beam_position[2]
        dx == beam_direction[1]
        dy == beam_direction[2]
        dist_left == Abs(x - b.left)
        dist_right == Abs(x - b.right)
        dist_top == Abs(y - b.top)
        dist_bottom == Abs(y - b.bottom)
        dmin == Min4(dist_left, dist_right, dist_top, dist_bottom)
    IN  IF dmin = dist_top \/ dmin = dist_bottom
        THEN <<dx, -dy>>
        ELSE <<-dx, dy>>

\* Mutant of reflect_beam: the reflected beam loses its vertical component.
reflect_beam_flatten(b, beam_position, beam_direction) ==
    <<-beam_direction[1], 0>>

reflect_beam(b, beam_position, beam_direction) ==
    LET x == beam_position[1]
        y == beam_position[2]
        dx == beam_direction[1]
        dy == beam_direction[2]
        dist_left == Abs(x - b.left)
        dist_right == Abs(x - b.right)
        dist_top == Abs(y - b.top)
        dist_bottom == Abs(y - b.bottom)
        dmin == Min4(dist_left, dist_right, dist_top, dist_bottom)
    IN  IF dmin = dist_left \/ dmin = dist_right
        THEN <<-dx, dy>>
        ELSE <<dx, -dy>>

\* Block.interact (the base class: pass through).
BlockInteract(h, id, beam_direction, beam_position) ==
    [heap |-> h, dirs |-> <<beam_direction>>]

ReflectInteract(h, id, beam_direction, beam_position) ==
    [heap |-> h, dirs |-> <<reflect_beam(h[id], beam_position, beam_direction)>>]

\* Mutant of OpaqueInteract: the beam passes, as in the base class.
OpaqueInteractPass(h, id, beam_direction, beam_position) ==
    [heap |-> h, dirs |-> <<beam_direction>>]

OpaqueInteract(h, id, beam_direction, beam_position) ==
    [heap |-> h, dirs |-> <<>>]

\* Mutant of RefractInteract: the flag is never set.
RefractInteractNoFlag(h, id, beam_direction, beam_position) ==
    IF ~h[id].has_refracted
    THEN [heap |-> h,
          dirs |-> <<beam_direction,
                     reflect_beam(h[id], beam_position, beam_direction)>>]
    ELSE [heap |-> h, dirs |-> <<beam_direction>>]

RefractInteract(h, id, beam_direction, beam_position) ==
    IF ~h[id].has_refracted
    THEN [heap |-> [h EXCEPT ![id].has_refracted = TRUE],
          dirs |-> <<beam_direction,
                     reflect_beam(h[id], beam_position, beam_direction)>>]
    ELSE [heap |-> h, dirs |-> <<beam_direction>>]

\* block.interact(beam_direction, beam_position): dynamic dispatch on the
\* class of the object; the result is the returned list and the heap after
\* the call.
interact(h, id, beam_direction, beam_position) ==
    CASE h[id].kind = "ReflectBlock" ->
            ReflectInteract(h, id, beam_direction, beam_position)
      [] h[id].kind = "OpaqueBlock" ->
            OpaqueInteract(h, id, beam_direction, beam_position)
      [] h[id].kind = "RefractBlock" ->
            RefractInteract(h, id, beam_direction, beam_position)
      [] OTHER -> BlockInteract(h, id, beam_direction, beam_position)

(***************************************************************************)
(* board.py                                                                *)
(***************************************************************************)

Height(grid) == Len(grid)
Width(grid) == IF Len(grid) > 0 THEN Len(grid[1]) ELSE 0

\* The cells in the order of the nested loops "for i ... for j ...".
RowMajor(grid) ==
    [k \in 1..(Height(grid) * Width(grid)) |->
        <<(k - 1) \div Width(grid), (k - 1) % Width(grid)>>]

Marker(grid, cell) == grid[cell[1] + 1][cell[2] + 1]

\* The smallest object id not in use.
NewId(h) ==
    CHOOSE n \in 1..(Cardinality(DOMAIN h) + 1) :
        /\ n \notin DOMAIN h
        /\ \A m \in 1..(n - 1) : m \in DOMAIN h

\* The box of cell (i,j) with the origin stamped (Board.__init__ lines 34-48,
\* place_free_block lines 98-103).
AtCell(b, i, j) ==
    [set_boundaries(b, 2 * i, 2 * j, 2 * i + 2, 2 * j + 2)
        EXCEPT !.orig_pos = <<i, j>>]

\* Mutant of NewBoard: free_positions leaves out the 'x' cells only.
NewBoardFixedFree(data) ==
    LET grid == data.grid
        fixed_cells == SelectSeq(RowMajor(grid),
                          LAMBDA c : Marker(grid, c) \in {"A", "B", "C"})
        free_positions == SelectSeq(RowMajor(grid),
                          LAMBDA c : Marker(grid, c) # "x")
    IN  [heap |-> [k \in 1..Len(fixed_cells) |->
                     AtCell(NewBlock(ClassName(Marker(grid, fixed_cells[k])), TRUE),
                            fixed_cells[k][1], fixed_cells[k][2])],
         board |-> [orig_grid |-> grid,
                    blocks_available |-> data.blocks_available,
                    lasers |-> data.lasers,
                    points |-> data.points,
                    orig_height |-> Height(grid),
                    orig_width |-> Width(grid),
                    fixed_blocks |-> [k \in 1..Len(fixed_cells) |-> k],
                    free_positions |-> free_positions,
                    free_blocks_placed |-> <<>>]]

\* Board.__init__: the result is the new board and the heap holding its
\* fixed blocks (ids 1..n in row-major order).
NewBoard(data) ==
    LET grid == data.grid
        fixed_cells == SelectSeq(RowMajor(grid),
                          LAMBDA c : Marker(grid, c) \in {"A", "B", "C"})
        free_positions == SelectSeq(RowMajor(grid),
                          LAMBDA c : Marker(grid, c) \notin {"x", "A", "B", "C"})
    IN  [heap |-> [k \in 1..Len(fixed_cells) |->
                     AtCell(NewBlock(ClassName(Marker(grid, fixed_cells[k])), TRUE),
                            fixed_cells[k][1], fixed_cells[k][2])],
         board |-> [orig_grid |-> grid,
                    blocks_available |-> data.blocks_available,
                    lasers |-> data.lasers,
                    points |-> data.points,
                    orig_height |-> Height(grid),
                    orig_width |-> Width(grid),
                    fixed_blocks |-> [k \in 1..Len(fixed_cells) |-> k],
                    free_positions |-> free_positions,
                    free_blocks_placed |-> <<>>]]

get_placed_blocks(b) == b.fixed_blocks \o b.free_blocks_placed

\* Mutant of is_placeable: the movable list is not consulted.
is_placeable_grid_only(h, b, i, j) == Marker(b.orig_grid, <<i, j>>) # "x"

is_placeable(h, b, i, j) ==
    IF Marker(b.orig_grid, <<i, j>>) = "x"
    THEN FALSE
    ELSE \A k \in 1..Len(b.free_blocks_placed) :
            h[b.free_blocks_placed[k]].orig_pos # <<i, j>>

\* board.place_free_block(i, j, block) with block a freshly made object of
\* class kind (solver.py lines 83-90): heap and board after the call.
place_free_block(h, b, i, j, kind) ==
    LET id == NewId(h)
    IN  [heap |-> (id :> AtCell(NewBlock(kind, FALSE), i, j)) @@ h,
         board |-> [b EXCEPT !.free_blocks_placed = Append(@, id)]]

\* Index of the first movable block with origin (i,j), 0 if there is none.
FirstAt(h, b, i, j) ==
    LET hits == {k \in 1..Len(b.free_blocks_placed) :
                    h[b.free_blocks_placed[k]].orig_pos = <<i, j>>}
    IN  IF hits = {} THEN 0
        ELSE CHOOSE k \in hits : \A m \in hits : k <= m

\* Mutant of remove_free_block: the first block of the list is deleted,
\* whatever its origin.
remove_free_block_first(h, b, i, j) ==
    IF b.free_blocks_placed = <<>>
    THEN [heap |-> h, board |-> b]
    ELSE [heap |-> Restrict(h, DOMAIN h \ {Head(b.free_blocks_placed)}),
          board |-> [b EXCEPT !.free_blocks_placed = Tail(@)]]

\* board.remove_free_block(i, j): the deleted object has no other reference
\* and leaves the heap.
remove_free_block(h, b, i, j) ==
    LET idx == FirstAt(h, b, i, j)
        lst == b.free_blocks_placed
    IN  IF idx = 0
        THEN [heap |-> h, board |-> b]
        ELSE [heap |-> Restrict(h, DOMAIN h \ {lst[idx]}),
              board |-> [b EXCEPT !.free_blocks_placed =
                            SubSeq(lst, 1, idx - 1) \o SubSeq(lst, idx + 1, Len(lst))]]

\* Mutant of clone: a shallow copy, the copy's lists name the same objects.
clone_shallow(h, b) == [heap |-> h, board |-> b]

\* Board.clone = copy.deepcopy(self): every block object is copied, with all
\* of its attributes, into a new object; the copy's lists name the new objects.
clone(h, b) ==
    LET all == get_placed_blocks(b)
        top == IF DOMAIN h = {} THEN 0
               ELSE CHOOSE n \in DOMAIN h : \A m \in DOMAIN h : m <= n
        nf == Len(b.fixed_blocks)
        fresh == [k \in (top + 1)..(top + Len(all)) |-> h[all[k - top]]]
    IN  [heap |-> fresh @@ h,
         board |-> [b EXCEPT
            !.fixed_blocks = [k \in 1..nf |-> top + k],
            !.free_blocks_placed =
                [k \in 1..Len(b.free_blocks_placed) |-> top + nf + k]]]

(***************************************************************************)
(* solver.py: test_solution                                                *)
(***************************************************************************)
max_steps == 200

\* epsilon = 0.1 is 1/epsilon_den: the point (x + epsilon*dx, y + epsilon*dy)
\* is ((epsilon_den*x + dx)/epsilon_den, (epsilon_den*y + dy)/epsilon_den).
epsilon_den == 10

LiveIds(b) == SeqToSet(get_placed_blocks(b))

\* Mutant of FirstCollided: the last block containing the point.
LastCollided(h, blocks, x, y, den) ==
    LET hits == {k \in 1..Len(blocks) : within_boundaries(h[blocks[k]], x, y, den)}
    IN  IF hits = {} THEN 0
        ELSE CHOOSE k \in hits : \A m \in hits : k >= m

\* "for block in blocks: if block.within_boundaries(x, y): ... break":
\* the index in blocks of the first block containing the point, 0 if none.
FirstCollided(h, blocks, x, y, den) ==
    LET hits == {k \in 1..Len(blocks) : within_boundaries(h[blocks[k]], x, y, den)}
    IN  IF hits = {} THEN 0
        ELSE CHOOSE k \in hits : \A m \in hits : k <= m

\* Mutant of Successors: the beams leave an interaction with the hop count
\* they came with.
SuccessorsNoCount(x, y, dirs, steps) ==
    [k \in 1..Len(dirs) |-> <<x, y, dirs[k][1], dirs[k][2], steps - 1>>]

\* One beam (x, y, new_dx, new_dy, steps) per returned direction, in order.
Successors(x, y, dirs, steps) ==
    [k \in 1..Len(dirs) |-> <<x, y, dirs[k][1], dirs[k][2], steps>>]

NoEvent == [op |-> "none", block |-> 0, kind |-> None, direction |-> <<>>,
            position |-> <<>>, out |-> <<>>]

InteractEvent(op, h, id, direction, position, out) ==
    [op |-> op, block |-> id, kind |-> h[id].kind, direction |-> direction,
     position |-> position, out |-> out]

\* No board: the value of a board-valued field that refers to no board.
NoBoard == [is |-> None]

\* No call of test_solution is active.  result is the value of the return
\* statement and is read only after a return (running = FALSE in a call).
IdleSim == [running |-> FALSE, board_copy |-> NoBoard, blocks |-> <<>>,
            beam_queue |-> <<>>, remaining_targets |-> {}, result |-> FALSE,
            iter |-> 0, last |-> NoEvent]

\* Mutant of StartSim: the targets at the emitters' start coordinates are
\* marked when the queue is seeded.
StartSimMarkStarts(h, b, tgts) ==
    LET c == clone(h, b)
    IN  [heap |-> c.heap,
         sim |-> [running |-> TRUE,
                  board_copy |-> c.board,
                  blocks |-> get_placed_blocks(c.board),
                  beam_queue |-> [k \in 1..Len(c.board.lasers) |->
                                    c.board.lasers[k] \o <<0>>],
                  remaining_targets |->
                      tgts \ {<<c.board.lasers[k][1], c.board.lasers[k][2]>> :
                                 k \in 1..Len(c.board.lasers)},
                  result |-> FALSE,
                  iter |-> 0,
                  last |-> [NoEvent EXCEPT !.op = "start"]]]

\* test_solution lines 120-137: clone the board, copy the targets, seed the
\* queue with one beam per laser.
StartSim(h, b, tgts) ==
    LET c == clone(h, b)
    IN  [heap |-> c.heap,
         sim |-> [running |-> TRUE,
                  board_copy |-> c.board,
                  blocks |-> get_placed_blocks(c.board),
                  beam_queue |-> [k \in 1..Len(c.board.lasers) |->
                                    c.board.lasers[k] \o <<0>>],
                  remaining_targets |-> tgts,
                  \* nothing is returned while running is TRUE; result is
                  \* assigned with the return (lines 214-216 and 257)
                  result |-> FALSE,
                  iter |-> 0,
                  last |-> [NoEvent EXCEPT !.op = "start"]]]

\* Lines 204-207: the next position is on the board,
\* 0 <= next_x < orig_width * 2 + 1 and 0 <= next_y < orig_height * 2 + 1.
\* Mutant of InBoard: the upper limits are one too far.
InBoardLoose(bc, next_x, next_y) ==
    /\ 0 <= next_x /\ next_x < bc.orig_width * 2 + 2
    /\ 0 <= next_y /\ next_y < bc.orig_height * 2 + 2

InBoard(bc, next_x, next_y) ==
    /\ 0 <= next_x /\ next_x < bc.orig_width * 2 + 1
    /\ 0 <= next_y /\ next_y < bc.orig_height * 2 + 1

\* Mutant of HitTarget: the target is found but not removed.
HitTargetKeep(remaining_targets, next_x, next_y) == remaining_targets

\* Lines 211-213: remaining_targets after the hop onto (next_x, next_y).
HitTarget(remaining_targets, next_x, next_y) ==
    remaining_targets \ {<<next_x, next_y>>}

\* Mutant of SimStep: the containment scan of lines 218-254 comes before the
\* target check of lines 211-216, and a beam that meets a block marks no
\* target.
SimStepScanFirst(h, s) ==
    IF s.beam_queue = <<>>
    THEN [heap |-> h,
          sim |-> [s EXCEPT !.running = FALSE,
                            !.result = (s.remaining_targets = {}),
                            !.last = [NoEvent EXCEPT !.op = "drained"]]]
    ELSE
    LET beam == Head(s.beam_queue)
        rest == Tail(s.beam_queue)
        x == beam[1]
        y == beam[2]
        dx == beam[3]
        dy == beam[4]
        steps == beam[5]
        t == [s EXCEPT !.iter = @ + 1]
        first == IF steps = 0
                 THEN FirstCollided(h, s.blocks, epsilon_den * x + dx,
                                    epsilon_den * y + dy, epsilon_den)
                 ELSE 0
        next_x == x + dx
        next_y == y + dy
        in_board == InBoard(s.board_copy, next_x, next_y)
        left_over == HitTarget(s.remaining_targets, next_x, next_y)
        collided == FirstCollided(h, s.blocks, next_x, next_y, 1)
    IN  IF first # 0
        THEN LET r == interact(h, s.blocks[first], <<dx, dy>>, <<x, y>>)
             IN  [heap |-> r.heap,
                  sim |-> [t EXCEPT
                     !.beam_queue = rest \o Successors(x, y, r.dirs, steps + 1),
                     !.last = InteractEvent("initial", h, s.blocks[first],
                                            <<dx, dy>>, <<x, y>>, r.dirs)]]
        ELSE IF steps >= max_steps
        THEN [heap |-> h,
              sim |-> [t EXCEPT !.beam_queue = rest,
                                !.last = [NoEvent EXCEPT !.op = "max_steps"]]]
        ELSE IF ~in_board
        THEN [heap |-> h,
              sim |-> [t EXCEPT !.beam_queue = rest,
                                !.last = [NoEvent EXCEPT !.op = "left_board"]]]
        ELSE IF collided # 0
        THEN LET r == interact(h, s.blocks[collided], <<dx, dy>>, <<next_x, next_y>>)
             IN  [heap |-> r.heap,
                  sim |-> [t EXCEPT
                     !.beam_queue = rest \o Successors(next_x, next_y, r.dirs, steps + 1),
                     !.last = InteractEvent("collision", h, s.blocks[collided],
                                            <<dx, dy>>, <<next_x, next_y>>, r.dirs)]]
        ELSE IF <<next_x, next_y>> \in s.remaining_targets /\ left_over = {}
        THEN [heap |-> h,
              sim |-> [t EXCEPT !.running = FALSE,
                                !.result = TRUE,
                                !.beam_queue = rest,
                                !.remaining_targets = left_over,
                                !.last = [NoEvent EXCEPT !.op = "all_hit"]]]
        ELSE [heap |-> h,
              sim |-> [t EXCEPT
                     !.beam_queue = Append(rest, <<next_x, next_y, dx, dy, steps + 1>>),
                     !.remaining_targets = left_over,
                     !.last = [NoEvent EXCEPT !.op = "move"]]]

\* One evaluation of the loop condition "while beam_queue:" and, when it is
\* true, one iteration of the loop body (lines 139-256); when it is false,
\* the final return (line 257).
SimStep(h, s) ==
    IF s.beam_queue = <<>>
    THEN [heap |-> h,
          sim |-> [s EXCEPT !.running = FALSE,
                            !.result = (s.remaining_targets = {}),
                            !.last = [NoEvent EXCEPT !.op = "drained"]]]
    ELSE
    LET beam == Head(s.beam_queue)
        rest == Tail(s.beam_queue)
        x == beam[1]
        y == beam[2]
        dx == beam[3]
        dy == beam[4]
        steps == beam[5]
        t == [s EXCEPT !.iter = @ + 1]
        first == IF steps = 0
                 THEN FirstCollided(h, s.blocks, epsilon_den * x + dx,
                                    epsilon_den * y + dy, epsilon_den)
                 ELSE 0
        next_x == x + dx
        next_y == y + dy
        in_board == InBoard(s.board_copy, next_x, next_y)
        left_over == HitTarget(s.remaining_targets, next_x, next_y)
        collided == FirstCollided(h, s.blocks, next_x, next_y, 1)
    IN  IF first # 0
        THEN LET r == interact(h, s.blocks[first], <<dx, dy>>, <<x, y>>)
             IN  [heap |-> r.heap,
                  sim |-> [t EXCEPT
                     !.beam_queue = rest \o Successors(x, y, r.dirs, steps + 1),
                     !.last = InteractEvent("initial", h, s.blocks[first],
                                            <<dx, dy>>, <<x, y>>, r.dirs)]]
        ELSE IF steps >= max_steps
        THEN [heap |-> h,
              sim |-> [t EXCEPT !.beam_queue = rest,
                                !.last = [NoEvent EXCEPT !.op = "max_steps"]]]
        ELSE IF ~in_board
        THEN [heap |-> h,
              sim |-> [t EXCEPT !.beam_queue = rest,
                                !.last = [NoEvent EXCEPT !.op = "left_board"]]]
        ELSE IF <<next_x, next_y>> \in s.remaining_targets /\ left_over = {}
        THEN [heap |-> h,
              sim |-> [t EXCEPT !.running = FALSE,
                                !.result = TRUE,
                                !.beam_queue = rest,
                                !.remaining_targets = left_over,
                                !.last = [NoEvent EXCEPT !.op = "all_hit"]]]
        ELSE IF collided # 0
        THEN LET r == interact(h, s.blocks[collided], <<dx, dy>>, <<next_x, next_y>>)
             IN  [heap |-> r.heap,
                  sim |-> [t EXCEPT
                     !.beam_queue = rest \o Successors(next_x, next_y, r.dirs, steps + 1),
                     !.remaining_targets = left_over,
                     !.last = InteractEvent("collision", h, s.blocks[collided],
                                            <<dx, dy>>, <<next_x, next_y>>, r.dirs)]]
        ELSE [heap |-> h,
              sim |-> [t EXCEPT
                     !.beam_queue = Append(rest, <<next_x, next_y, dx, dy, steps + 1>>),
                     !.remaining_targets = left_over,
                     !.last = [NoEvent EXCEPT !.op = "move"]]]

\* The loop run to its return.  Run is SimStep repeated until the call has
\* returned; the steps are grouped (Steps64 is up to 64 loop iterations) only
\* to keep the recursion shallow.  "CHOOSE v \in {F(r) : r \in {e}} : TRUE"
\* is F(e) with e evaluated once.
Steps1(st) == IF st.sim.running THEN SimStep(st.heap, st.sim) ELSE st
Steps2(st) == CHOOSE v \in {Steps1(r) : r \in {Steps1(st)}} : TRUE
Steps4(st) == CHOOSE v \in {Steps2(r) : r \in {Steps2(st)}} : TRUE
Steps8(st) == CHOOSE v \in {Steps4(r) : r \in {Steps4(st)}} : TRUE
Steps16(st) == CHOOSE v \in {Steps8(r) : r \in {Steps8(st)}} : TRUE
Steps32(st) == CHOOSE v \in {Steps16(r) : r \in {Steps16(st)}} : TRUE
Steps64(st) == CHOOSE v \in {Steps32(r) : r \in {Steps32(st)}} : TRUE

RECURSIVE RunSim(_)
RunSim(st) ==
    IF ~st.sim.running THEN st
    ELSE CHOOSE v \in {RunSim(r) : r \in {Steps64(st)}} : TRUE

\* test_solution(board, targets) as one call: the returned value and the heap
\* after the call, when board_copy and its blocks are no longer referenced.
test_solution(h, b, tgts) ==
    CHOOSE v \in {[heap |-> Restrict(r.heap, LiveIds(b)), result |-> r.sim.result] :
                    r \in {RunSim(StartSim(h, b, tgts))}} : TRUE

(***************************************************************************)
(* solver.py: solve                                                        *)
(***************************************************************************)

\* [(block.orig_pos, type(block).__name__) for block in board.free_blocks_placed]
Placement(h, b) ==
    [k \in 1..Len(b.free_blocks_placed) |->
        <<h[b.free_blocks_placed[k]].orig_pos, h[b.free_blocks_placed[k]].kind>>]

\* Mutant of AllZero: any(...) in place of all(...).
AllZeroAny(fc) == \E t \in DOMAIN fc : fc[t] = 0

\* all(count == 0 for count in free_counts.values())
AllZero(fc) == \A t \in DOMAIN fc : fc[t] = 0

\* Mutant of NextType: the loop over the block types stops after the first
\* type it has tried (a "break" at the end of the loop body).
NextTypeBreak(fc, tried) ==
    LET ks == {k \in 1..Len(BlockTypes) : fc[BlockTypes[k]] > 0}
    IN  IF tried # 0 \/ ks = {} THEN 0
        ELSE CHOOSE k \in ks : \A m \in ks : k <= m

\* Mutant of NextType: the loop runs over the block types in the order
\* "C", "B", "A".
NextTypeReverse(fc, tried) ==
    LET ks == {k \in 1..(IF tried = 0 THEN Len(BlockTypes) ELSE tried - 1) :
                  fc[BlockTypes[k]] > 0}
    IN  IF ks = {} THEN 0
        ELSE CHOOSE k \in ks : \A m \in ks : k >= m

\* "for block_type in ["A", "B", "C"]: if free_counts.get(block_type, 0) > 0":
\* the index of the next type after index tried that the loop body runs for,
\* 0 when the loop ends.
NextType(fc, tried) ==
    LET ks == {k \in (tried + 1)..Len(BlockTypes) : fc[BlockTypes[k]] > 0}
    IN  IF ks = {} THEN 0
        ELSE CHOOSE k \in ks : \A m \in ks : k <= m

Frame(pos_index, pc, tried) == [pos_index |-> pos_index, pc |-> pc, tried |-> tried]
Top == stack[Len(stack)]
Pop == SubSeq(stack, 1, Len(stack) - 1)
SetTop(f) == [stack EXCEPT ![Len(stack)] = f]
TopCell == board.free_positions[Top.pos_index + 1]

MaxCalls == 2

\* solve(board), lines 37-46 and the call backtrack(0, copy) of line 103.
CallSolve ==
    /\ phase = "idle"
    /\ calls < MaxCalls
    /\ phase' = "solving"
    /\ calls' = calls + 1
    /\ targets' = SeqToSet(board.points)
    /\ free_counts' = [t \in {"A", "B", "C"} |-> board.blocks_available[t]]
    /\ stack' = <<Frame(0, "enter", 0)>>
    /\ ret' = Pending
    /\ hist' = [hist EXCEPT !.at_call = Placement(heap, board),
                            !.leaves = {}, !.resim = FALSE, !.visits = <<>>]
    /\ UNCHANGED <<heap, board, result, sim>>

InBacktrack(pc) ==
    /\ phase = "solving"
    /\ stack # <<>>
    /\ Top.pc = pc

\* Mutant of BaseCase: the returned list is tested for truth, so an empty
\* placement is reported as no result.
BaseCaseTruthy ==
    /\ InBacktrack("enter")
    /\ AllZero(free_counts)
    /\ \E ts \in {test_solution(heap, board, targets)} :
           /\ heap' = ts.heap
           /\ ret' = IF ts.result /\ Placement(ts.heap, board) # <<>>
                     THEN RetList(Placement(ts.heap, board)) ELSE RetNone
    /\ stack' = Pop
    /\ \E leaf \in {[placed |-> SeqToSet(Placement(heap, board)),
                      counts |-> free_counts]} :
           hist' = [hist EXCEPT
              !.resim = @ \/ (\E l \in hist.leaves : l.placed = leaf.placed),
              !.leaves = @ \cup {leaf},
              !.visits = Append(@, SubSeq(Placement(heap, board),
                                          Len(hist.at_call) + 1,
                                          Len(board.free_blocks_placed)))]
    /\ UNCHANGED <<board, phase, calls, targets, free_counts, result, sim>>

\* Lines 60-66: no free blocks left to place.
BaseCase ==
    /\ InBacktrack("enter")
    /\ AllZero(free_counts)
    /\ \E ts \in {test_solution(heap, board, targets)} :
           /\ heap' = ts.heap
           /\ ret' = IF ts.result THEN RetList(Placement(ts.heap, board)) ELSE RetNone
    /\ stack' = Pop
    /\ \E leaf \in {[placed |-> SeqToSet(Placement(heap, board)),
                      counts |-> free_counts]} :
           hist' = [hist EXCEPT
              !.resim = @ \/ (\E l \in hist.leaves : l.placed = leaf.placed),
              !.leaves = @ \cup {leaf},
              !.visits = Append(@, SubSeq(Placement(heap, board),
                                          Len(hist.at_call) + 1,
                                          Len(board.free_blocks_placed)))]
    /\ UNCHANGED <<board, phase, calls, targets, free_counts, result, sim>>

\* Lines 69-70: all positions exhausted.
Exhausted ==
    /\ InBacktrack("enter")
    /\ ~AllZero(free_counts)
    /\ Top.pos_index >= Len(board.free_positions)
    /\ ret' = RetNone
    /\ stack' = Pop
    /\ UNCHANGED <<heap, board, phase, calls, targets, free_counts, result, sim, hist>>

\* Line 73: option 1, the recursive call that skips the current position.
SkipCall ==
    /\ InBacktrack("enter")
    /\ ~AllZero(free_counts)
    /\ Top.pos_index < Len(board.free_positions)
    /\ stack' = Append(SetTop([Top EXCEPT !.pc = "skip"]),
                       Frame(Top.pos_index + 1, "enter", 0))
    /\ UNCHANGED <<heap, board, phase, calls, targets, free_counts, ret, result, sim, hist>>

\* Mutant of ReturnResult: the move is undone on the success path too.
ReturnResultUndo ==
    /\ phase = "solving"
    /\ stack # <<>>
    /\ Top.pc \in {"skip", "place"}
    /\ ret.is = "list"
    /\ stack' = Pop
    /\ \E r \in {IF Top.pc = "place"
                  THEN remove_free_block(heap, board, TopCell[1], TopCell[2])
                  ELSE [heap |-> heap, board |-> board]} :
           /\ heap' = r.heap
           /\ board' = r.board
    /\ UNCHANGED <<phase, calls, targets, free_counts, ret, result, sim, hist>>

\* Lines 74-75 and 94-95: a recursive call returned a result; return it.
ReturnResult ==
    /\ phase = "solving"
    /\ stack # <<>>
    /\ Top.pc \in {"skip", "place"}
    /\ ret.is = "list"
    /\ stack' = Pop
    /\ UNCHANGED <<heap, board, phase, calls, targets, free_counts, ret, result, sim, hist>>

\* Lines 78-79 after the skip call returned None: enter the loop over the
\* block types when the cell is placeable, else return None (line 101).
AfterSkip ==
    /\ InBacktrack("skip")
    /\ ret.is = "None"
    /\ IF is_placeable(heap, board, TopCell[1], TopCell[2])
       THEN /\ stack' = SetTop([Top EXCEPT !.pc = "loop", !.tried = 0])
            /\ ret' = Pending
       ELSE /\ stack' = Pop
            /\ ret' = RetNone
    /\ UNCHANGED <<heap, board, phase, calls, targets, free_counts, result, sim, hist>>

\* Lines 80-93: the next block type with a nonzero count is placed at the
\* cell, its count decremented, and backtrack called for the next position.
TryType ==
    /\ InBacktrack("loop")
    /\ NextType(free_counts, Top.tried) # 0
    /\ \E k \in {NextType(free_counts, Top.tried)} :
       \E p \in {place_free_block(heap, board, TopCell[1], TopCell[2],
                                  ClassName(BlockTypes[k]))} :
           /\ heap' = p.heap
           /\ board' = p.board
           /\ free_counts' = [free_counts EXCEPT ![BlockTypes[k]] = @ - 1]
           /\ stack' = Append(SetTop([Top EXCEPT !.pc = "place", !.tried = k]),
                              Frame(Top.pos_index + 1, "enter", 0))
    /\ UNCHANGED <<phase, calls, targets, ret, result, sim, hist>>

\* Mutant of UndoMove: the block is removed but its count is not given back.
UndoMoveNoRestore ==
    /\ InBacktrack("place")
    /\ ret.is = "None"
    /\ \E r \in {remove_free_block(heap, board, TopCell[1], TopCell[2])} :
           /\ heap' = r.heap
           /\ board' = r.board
    /\ stack' = SetTop([Top EXCEPT !.pc = "loop"])
    /\ ret' = Pending
    /\ UNCHANGED <<phase, calls, targets, free_counts, result, sim, hist>>

\* Mutant of UndoMove: the count is given back but the block stays.
UndoMoveKeep ==
    /\ InBacktrack("place")
    /\ ret.is = "None"
    /\ free_counts' = [free_counts EXCEPT ![BlockTypes[Top.tried]] = @ + 1]
    /\ stack' = SetTop([Top EXCEPT !.pc = "loop"])
    /\ ret' = Pending
    /\ UNCHANGED <<heap, board, phase, calls, targets, result, sim, hist>>

\* Lines 97-99: the call after a placement returned None; undo the move.
UndoMove ==
    /\ InBacktrack("place")
    /\ ret.is = "None"
    /\ \E r \in {remove_free_block(heap, board, TopCell[1], TopCell[2])} :
           /\ heap' = r.heap
           /\ board' = r.board
    /\ free_counts' = [free_counts EXCEPT ![BlockTypes[Top.tried]] = @ + 1]
    /\ stack' = SetTop([Top EXCEPT !.pc = "loop"])
    /\ ret' = Pending
    /\ UNCHANGED <<phase, calls, targets, result, sim, hist>>

\* Line 101: the loop over the block types is over.
LoopEnd ==
    /\ InBacktrack("loop")
    /\ NextType(free_counts, Top.tried) = 0
    /\ stack' = Pop
    /\ ret' = RetNone
    /\ UNCHANGED <<heap, board, phase, calls, targets, free_counts, result, sim, hist>>

\* Line 103: backtrack(0, ...) has returned; solve returns its value.
SolveReturn ==
    /\ phase = "solving"
    /\ stack = <<>>
    /\ ret.is # "Pending"
    /\ result' = ret
    /\ ret' = Pending
    /\ phase' = "idle"
    /\ UNCHANGED <<heap, board, calls, targets, free_counts, stack, sim, hist>>

(***************************************************************************)
(* Boards the search is run on                                             *)
(***************************************************************************)
MaxBudget == 1

Budgets == [{"A", "B", "C"} -> 0..MaxBudget]

Scenario(grid, lasers, points) == [grid |-> grid, lasers |-> lasers, points |-> points]

Open2x2 == <<<<"o", "o">>, <<"o", "o">>>>

Scenarios ==
    { \* tests/test_lazors.py TestSolver.setUp
      Scenario(Open2x2, <<<<0, 1, 1, 0>>>>, <<<<2, 1>>>>),
      \* tests/test_lazors.py TestBoard.setUp
      Scenario(<<<<"o", "o">>, <<"x", "o">>>>, <<<<0, 0, 1, 0>>>>, <<<<1, 0>>>>),
      \* one row, the beam meets the edge shared by the two cells
      Scenario(<<<<"o", "o">>>>, <<<<3, 0, -1, 1>>>>, <<<<0, 1>>>>),
      \* two targets that need a split beam
      Scenario(<<<<"o", "o">>, <<"x", "o">>>>, <<<<3, 0, -1, 1>>>>, <<<<0, 3>>, <<4, 3>>>>),
      \* fixed blocks of each class
      Scenario(<<<<"C", "o">>, <<"o", "o">>>>, <<<<4, 1, -1, 1>>>>, <<<<1, 0>>, <<1, 4>>>>),
      Scenario(<<<<"o", "o">>, <<"o", "A">>>>, <<<<2, 1, 1, 1>>>>, <<<<0, 3>>, <<3, 2>>>>),
      Scenario(<<<<"o", "B">>, <<"o", "o">>>>, <<<<0, 1, 1, 1>>>>, <<<<3, 4>>>>),
      \* no target, two lasers
      Scenario(Open2x2, <<<<2, 1, 1, 1>>, <<1, 4, 1, -1>>>>, <<>>) }

NoSnap == [set |-> FALSE, heap |-> <<>>, board |-> NoBoard]

NoCall == [block |-> 0, kind |-> None, direction |-> <<0, 0>>,
           position |-> <<0, 0>>, out |-> <<>>, flag_before |-> FALSE]

\* What the caller has observed: the movable list at the solve call, the
\* board at the first test_solution call, the values test_solution returned,
\* the last interact call, the positions beams hopped onto in the running
\* test_solution call, and the placements solve has given to test_solution
\* (as a set, and in visits the blocks placed since the call, in the order
\* of the test_solution calls).
HistInit == [at_call |-> <<>>, snap |-> NoSnap, runs |-> {}, trials |-> 0,
             call |-> NoCall, ncalls |-> 0, hops |-> {}, leaves |-> {},
             resim |-> FALSE, visits |-> <<>>]

\* The caller has built Board(data) and run nothing yet.
Constructed(data) ==
    LET nb == NewBoard(data)
    IN  /\ heap = nb.heap
        /\ board = nb.board
        /\ phase = "idle"
        /\ calls = 0
        /\ targets = {}
        /\ free_counts = [t \in {"A", "B", "C"} |-> 0]
        /\ stack = <<>>
        /\ ret = Pending
        /\ result = Pending
        /\ sim = IdleSim
        /\ hist = HistInit

Init ==
    \E sc \in Scenarios, ba \in Budgets :
        Constructed([grid |-> sc.grid, blocks_available |-> ba,
                     lasers |-> sc.lasers, points |-> sc.points])

Next ==
    \/ CallSolve
    \/ BaseCase
    \/ Exhausted
    \/ SkipCall
    \/ ReturnResult
    \/ AfterSkip
    \/ TryType
    \/ UndoMove
    \/ LoopEnd
    \/ SolveReturn

Spec == Init /\ [][Next]_vars

(***************************************************************************)
(* Properties of solve                                                     *)
(***************************************************************************)

\* A solve call that started on a board with an empty movable list and
\* nonnegative budgets has returned.
SolveReturned ==
    /\ phase = "idle"
    /\ calls > 0
    /\ hist.at_call = <<>>

TotalBudget == board.blocks_available["A"] + board.blocks_available["B"]
                 + board.blocks_available["C"]

CountOf(l, kind) == Cardinality({k \in 1..Len(l) : l[k][2] = kind})

\* C1: when solve returns a record for a board whose movable list was empty
\* at the call, the record lists exactly the blocks the live board holds, in
\* order, and test_solution on that board with the board's targets is true.
C1_Soundness ==
    (SolveReturned /\ result.is = "list") =>
        /\ result.list = Placement(heap, board)
        /\ test_solution(heap, board, SeqToSet(board.points)).result = TRUE

C1_Witness ==
    /\ SolveReturned
    /\ result.is = "list"
    /\ Len(result.list) > 0
    /\ board.points # <<>>

\* The board after place_free_block for the k-th .. last entries of a
\* sequence of candidate-cell indices cs with the block types ts.
RECURSIVE PlaceAll(_, _, _, _, _)
PlaceAll(h, b, cs, ts, k) ==
    IF k > Len(cs) THEN [heap |-> h, board |-> b]
    ELSE CHOOSE v \in
            {PlaceAll(p.heap, p.board, cs, ts, k + 1) :
                p \in {place_free_block(h, b, b.free_positions[cs[k]][1],
                                        b.free_positions[cs[k]][2],
                                        ClassName(ts[k]))}} : TRUE

\* The ways to give every budgeted block a candidate free cell of its own:
\* the cells (indices into free_positions) in the order the blocks are
\* placed, and the type of each block.
CompletePlacements ==
    LET n == TotalBudget
        m == Len(board.free_positions)
    IN  IF n > m THEN {}
        ELSE {pl \in [cells : [1..n -> 1..m], types : [1..n -> {"A", "B", "C"}]] :
                /\ \A k1, k2 \in 1..n : k1 # k2 => pl.cells[k1] # pl.cells[k2]
                /\ \A t \in {"A", "B", "C"} :
                      Cardinality({k \in 1..n : pl.types[k] = t})
                          = board.blocks_available[t]}

RowMajorOrder(pl) ==
    \A k \in 1..(Len(pl.cells) - 1) : pl.cells[k] < pl.cells[k + 1]

Succeeds(pl) ==
    \E p \in {PlaceAll(heap, board, pl.cells, pl.types, 1)} :
        test_solution(p.heap, p.board, SeqToSet(board.points)).result = TRUE

\* C2 as stated: solve returns None only if no complete placement of the
\* budget on distinct candidate free cells makes test_solution true, whatever
\* the order in which the blocks were put on the board.
C2_CompleteAnyPlacement ==
    (SolveReturned /\ result.is = "None") =>
        \A pl \in CompletePlacements : ~Succeeds(pl)

\* C2 (amended): solve returns None only if no complete placement of the
\* budget on distinct candidate free cells, the blocks placed in row-major
\* order of their cells, makes test_solution true.
C2_Complete ==
    (SolveReturned /\ result.is = "None") =>
        \A pl \in CompletePlacements : RowMajorOrder(pl) => ~Succeeds(pl)

C2_Witness ==
    /\ SolveReturned
    /\ result.is = "None"
    /\ TotalBudget >= 2
    /\ \E pl \in CompletePlacements : RowMajorOrder(pl)
    /\ board.points # <<>>

\* C3: a record returned for a board with nonnegative budgets and an empty
\* movable list at the call has as many entries as the total budget, as many
\* of each type as that type's budget, pairwise distinct origin cells, and
\* every origin cell is neither disallowed nor a fixed-block cell.
C3_RecordShape ==
    (SolveReturned /\ result.is = "list") =>
        /\ Len(result.list) = TotalBudget
        /\ \A t \in {"A", "B", "C"} :
              CountOf(result.list, ClassName(t)) = board.blocks_available[t]
        /\ \A k1, k2 \in 1..Len(result.list) :
              k1 # k2 => result.list[k1][1] # result.list[k2][1]
        /\ \A k \in 1..Len(result.list) :
              /\ result.list[k][1] \in SeqToSet(RowMajor(board.orig_grid))
              /\ Marker(board.orig_grid, result.list[k][1]) \notin {"x", "A", "B", "C"}

C3_Witness ==
    /\ SolveReturned
    /\ result.is = "list"
    /\ Len(result.list) >= 2
    /\ \E k \in 1..Len(board.fixed_blocks) : TRUE

\* C11: a second solve call on the same board returns what the first call
\* returned, and leaves no more movable blocks on the board than the budget.
C11_IdempotentRerun ==
    [][ (phase = "solving" /\ phase' = "idle" /\ calls >= 2) =>
            /\ result' = result
            /\ Len(board'.free_blocks_placed) <= TotalBudget ]_vars

\* C14: with the empty target set test_solution returns true on every board
\* (any grid, fixed blocks, placed blocks, lasers); and solve on a board with
\* zero budget and no targets returns the empty list, not None.
C14_EmptyTargets ==
    /\ test_solution(heap, board, {}).result = TRUE
    /\ (SolveReturned /\ TotalBudget = 0 /\ board.points = <<>>) =>
           result = RetList(<<>>)

\* solve has returned on a board with zero budget and no targets.
C14_Witness ==
    /\ SolveReturned
    /\ TotalBudget = 0
    /\ board.points = <<>>
    /\ board.lasers # <<>>
    /\ result.is = "list"

\* The number of movable blocks of type t on the board.
PlacedOf(t) == CountOf(Placement(heap, board), ClassName(t))

C18_PlacementValid ==
    phase = "solving" =>
        \E pl \in {Placement(heap, board)} :
            /\ \A k1, k2 \in 1..Len(pl) : k1 # k2 => pl[k1][1] # pl[k2][1]
            /\ \A k \in 1..Len(pl) :
                  /\ pl[k][1] \in SeqToSet(RowMajor(board.orig_grid))
                  /\ Marker(board.orig_grid, pl[k][1]) \notin {"x", "A", "B", "C"}
                  /\ \A j \in 1..Len(board.fixed_blocks) :
                        heap[board.fixed_blocks[j]].orig_pos # pl[k][1]

\* A solve call on a board that has a fixed block and already held a movable
\* block at the call has placed another block.
C18_Witness ==
    /\ phase = "solving"
    /\ hist.at_call # <<>>
    /\ Len(board.free_blocks_placed) > Len(hist.at_call)
    /\ board.fixed_blocks # <<>>

\* C19: every test_solution call made by the current solve call was made
\* with all remaining counts zero and the whole budget of every type placed
\* by the call on the board, and no placement (set of (cell, type) pairs) was
\* given to test_solution twice.
C19_SaturatedLeavesOnce ==
    /\ \A l \in hist.leaves :
          \A t \in {"A", "B", "C"} :
             /\ l.counts[t] = 0
             /\ Cardinality({p \in l.placed : p[2] = ClassName(t)})
                   = CountOf(hist.at_call, ClassName(t)) + board.blocks_available[t]
    /\ ~hist.resim

\* The search has given three or more placements to test_solution in one
\* solve call on a board with two blocks to place.
C19_Witness ==
    /\ phase = "solving"
    /\ TotalBudget >= 2
    /\ Cardinality(hist.leaves) >= 3

\* The moves of the active backtrack calls that have not been undone: for
\* each call that has placed a block and is waiting for the recursive call
\* of line 93, in call order, the cell and class of the block.
ActiveMoves ==
    LET placing == SelectSeq(stack, LAMBDA f : f.pc = "place")
    IN  [k \in 1..Len(placing) |->
            <<board.free_positions[placing[k].pos_index + 1],
              ClassName(BlockTypes[placing[k].tried])>>]

\* C20: unless a record is being returned, the movable list is the list at
\* the solve call followed by the moves of the active calls, and the
\* remaining counts are the budget less those moves.  A backtrack call is
\* entered and returns None under the same active calls of its callers, so
\* it returns with the movable list and the counts it was entered with; and
\* when solve has returned None the movable list is as it was at the call.
C20_UndoOnFailure ==
    /\ (phase = "solving" /\ ret.is # "list") =>
          /\ Placement(heap, board) = hist.at_call \o ActiveMoves
          /\ \A t \in {"A", "B", "C"} :
                free_counts[t] = board.blocks_available[t]
                                    - CountOf(ActiveMoves, ClassName(t))
    /\ (phase = "idle" /\ calls > 0 /\ result.is = "None") =>
          Placement(heap, board) = hist.at_call

\* solve has returned None after trying, and undoing, several placements.
C20_Witness ==
    /\ phase = "idle"
    /\ calls > 0
    /\ result.is = "None"
    /\ TotalBudget >= 2
    /\ Cardinality(hist.leaves) >= 2

\* The cells (i, j) of the grid.
Cells == SeqToSet(RowMajor(board.orig_grid))

\* Some movable block on the board has origin c.
OccupiedByMovable(c) ==
    \E k \in 1..Len(board.free_blocks_placed) :
        heap[board.free_blocks_placed[k]].orig_pos = c

\* C22: for every cell of the grid is_placeable is false exactly when the
\* cell is disallowed ('x') or a movable block on the board has that origin;
\* it is true for every other cell, an open cell or the cell of a fixed block.
C22_IsPlaceable ==
    \A c \in Cells :
        is_placeable(heap, board, c[1], c[2])
            = ~(Marker(board.orig_grid, c) = "x" \/ OccupiedByMovable(c))

\* The board has a cell with a movable block, an open cell without one, and
\* a fixed block's cell for which is_placeable answers true.
C22_Witness ==
    /\ \E c \in Cells : OccupiedByMovable(c)
    /\ \E c \in Cells :
          /\ Marker(board.orig_grid, c) \in {"A", "B", "C"}
          /\ is_placeable(heap, board, c[1], c[2])
    /\ \E c \in Cells : ~OccupiedByMovable(c) /\ Marker(board.orig_grid, c) = "o"

\* C23: on every board, for every placeable cell and block class, after
\* place_free_block the cell is not placeable and the movable list is one
\* longer; after remove_free_block of the cell the movable list names the
\* same blocks in the same order as before, the blocks are as they were, and
\* the cell is placeable again; the fixed list is the same throughout.
C23_PlaceRemoveRoundTrip ==
    \A c \in Cells :
        is_placeable(heap, board, c[1], c[2]) =>
            \A kind \in {"ReflectBlock", "OpaqueBlock", "RefractBlock"} :
                \E p \in {place_free_block(heap, board, c[1], c[2], kind)} :
                \E r \in {remove_free_block(p.heap, p.board, c[1], c[2])} :
                    /\ ~is_placeable(p.heap, p.board, c[1], c[2])
                    /\ Len(p.board.free_blocks_placed)
                          = Len(board.free_blocks_placed) + 1
                    /\ p.board.fixed_blocks = board.fixed_blocks
                    /\ Restrict(p.heap, DOMAIN heap) = heap
                    /\ r.board = board
                    /\ r.heap = heap
                    /\ is_placeable(r.heap, r.board, c[1], c[2])

\* The board holds a fixed block and two movable blocks, and has a placeable
\* cell left.
C23_Witness ==
    /\ Len(board.free_blocks_placed) >= 2
    /\ board.fixed_blocks # <<>>
    /\ \E c \in Cells : is_placeable(heap, board, c[1], c[2])

\* The board after place_free_block for the k-th .. last entries of pl, a
\* sequence of (cell, class name) pairs.
RECURSIVE PlaceList(_, _, _, _)
PlaceList(h, b, pl, k) ==
    IF k > Len(pl) THEN [heap |-> h, board |-> b]
    ELSE CHOOSE v \in
            {PlaceList(p.heap, p.board, pl, k + 1) :
                p \in {place_free_block(h, b, pl[k][1][1], pl[k][1][2], pl[k][2])}} : TRUE

\* test_solution on the board as it was at the solve call with the blocks
\* of pl placed on it in order.
SucceedsFromCall(pl) ==
    \E p \in {PlaceList(heap,
                        [board EXCEPT !.free_blocks_placed =
                                         SubSeq(@, 1, Len(hist.at_call))],
                        pl, 1)} :
        test_solution(p.heap, p.board, SeqToSet(board.points)).result = TRUE

\* The choice the search makes at each candidate cell, in the order of
\* free_positions: 0 for skip, else the index of the block type in
\* ["A", "B", "C"].
Key(pl) ==
    [i \in 1..Len(board.free_positions) |->
        IF \E k \in 1..Len(pl) : pl[k][1] = board.free_positions[i]
        THEN CHOOSE t \in 1..Len(BlockTypes) :
                \E k \in 1..Len(pl) : /\ pl[k][1] = board.free_positions[i]
                                      /\ pl[k][2] = ClassName(BlockTypes[t])
        ELSE 0]

\* a comes before b in the depth-first order: at the first cell where the
\* choices differ, a skips where b places, or places an earlier type.
DepthFirstBefore(a, b) ==
    \E i \in 1..Len(a) :
        /\ a[i] < b[i]
        /\ \A j \in 1..(i - 1) : a[j] = b[j]

\* A complete placement as the list of (cell, class name) pairs.
AsList(pl) ==
    [k \in 1..Len(pl.cells) |->
        <<board.free_positions[pl.cells[k]], ClassName(pl.types[k])>>]

\* C27: when solve has returned, the complete placements it gave to
\* test_solution were visited in depth-first order (at each cell skip before
\* any placement, then Reflect, Opaque, Refract), every one before the last
\* makes test_solution false, and a returned record is the last one visited
\* and makes test_solution true; after a call on an empty movable list no
\* complete row-major placement that comes before the returned record in
\* that order makes test_solution true.
C27_FirstSuccess ==
    (phase = "idle" /\ calls > 0) =>
        LET v == hist.visits
        IN  /\ \A k \in 1..(Len(v) - 1) : DepthFirstBefore(Key(v[k]), Key(v[k + 1]))
            /\ \A k \in 1..(Len(v) - 1) : ~SucceedsFromCall(v[k])
            /\ result.is = "list" =>
                  /\ v # <<>>
                  /\ result.list = hist.at_call \o v[Len(v)]
                  /\ SucceedsFromCall(v[Len(v)])
                  /\ hist.at_call = <<>> =>
                        \A pl \in CompletePlacements :
                            (RowMajorOrder(pl)
                               /\ DepthFirstBefore(Key(AsList(pl)), Key(result.list)))
                            => ~SucceedsFromCall(AsList(pl))

\* solve has returned a record of two blocks after other complete
\* placements had failed.
C27_Witness ==
    /\ phase = "idle"
    /\ calls > 0
    /\ result.is = "list"
    /\ Len(result.list) >= 2
    /\ Len(hist.visits) >= 3
    /\ hist.at_call = <<>>

\* C28: once test_solution has returned true in a solve call (backtrack is
\* returning a record), the call places nothing, removes nothing and calls
\* test_solution no more; the record is the placement on the board, it is
\* handed up unchanged and it is what solve returns.
C28_SuccessStops ==
    [][(phase = "solving" /\ ret.is = "list") =>
          /\ ret.list = Placement(heap, board)
          /\ heap' = heap
          /\ board' = board
          /\ free_counts' = free_counts
          /\ hist' = hist
          /\ Len(stack') < Len(stack) \/ (stack = <<>> /\ stack' = <<>>)
          /\ phase' = "solving" => ret' = ret
          /\ phase' = "idle" => (stack = <<>> /\ result' = ret)
      ]_vars

\* A record of two blocks is being returned through the frames of backtrack.
C28_Witness ==
    /\ phase = "solving"
    /\ ret.is = "list"
    /\ Len(ret.list) >= 2
    /\ Len(stack) >= 2
    /\ Len(hist.visits) >= 2

\* The indices in the movable list of the blocks whose origin is cell c.
MovableAt(c) ==
    {k \in 1..Len(board.free_blocks_placed) :
        heap[board.free_blocks_placed[k]].orig_pos = c}

\* C29: every remove_free_block(i, j) the search issues (the undo of lines
\* 97-99) finds exactly one movable block with origin (i, j), that block is
\* the last element of the movable list, and the call deletes it and nothing
\* else.
C29_RemoveDiscipline ==
    [][(phase = "solving" /\ stack # <<>> /\ Top.pc = "place" /\ ret.is = "None") =>
          /\ MovableAt(TopCell) = {Len(board.free_blocks_placed)}
          /\ board'.free_blocks_placed =
                SubSeq(board.free_blocks_placed, 1, Len(board.free_blocks_placed) - 1)
          /\ \A id \in DOMAIN heap' : heap'[id] = heap[id]
          /\ DOMAIN heap' = DOMAIN heap \ {board.free_blocks_placed[Len(board.free_blocks_placed)]}
      ]_vars

\* The search has just undone a placement and another movable block, placed
\* before it, is still on the board.
C29_Witness ==
    /\ phase = "solving"
    /\ stack # <<>>
    /\ Top.pc = "loop"
    /\ Top.tried > 0
    /\ Len(board.free_blocks_placed) > Len(hist.at_call)

(***************************************************************************)
(* A block on its own, as tests/test_lazors.py TestBlocks uses it: a block *)
(* is made, given a box with set_boundaries, and interact is called on it. *)
(***************************************************************************)
MaxInteracts == 3
MaxCoord == 4

Directions == ({-1, 0, 1} \X {-1, 0, 1}) \ {<<0, 0>>}
Positions == (-1..MaxCoord) \X (-1..MaxCoord)
Kinds == {"Block", "ReflectBlock", "OpaqueBlock", "RefractBlock"}

EmptyBoard ==
    NewBoard([grid |-> <<>>, blocks_available |-> [t \in {"A", "B", "C"} |-> 0],
              lasers |-> <<>>, points |-> <<>>]).board

BlockInit ==
    \E kind \in Kinds, cell \in {<<0, 0>>, <<1, 1>>} :
        /\ heap = <<set_boundaries(NewBlock(kind, FALSE), 2 * cell[1], 2 * cell[2],
                                   2 * cell[1] + 2, 2 * cell[2] + 2)>>
        /\ board = EmptyBoard
        /\ phase = "idle"
        /\ calls = 0
        /\ targets = {}
        /\ free_counts = [t \in {"A", "B", "C"} |-> 0]
        /\ stack = <<>>
        /\ ret = Pending
        /\ result = Pending
        /\ sim = IdleSim
        /\ hist = HistInit

\* block.interact(direction, position) called by the test.
InteractCall ==
    /\ hist.ncalls < MaxInteracts
    /\ \E d \in Directions, p \in Positions :
       \E r \in {interact(heap, 1, d, p)} :
           /\ heap' = r.heap
           /\ hist' = [hist EXCEPT
                 !.call = [block |-> 1, kind |-> heap[1].kind, direction |-> d,
                           position |-> p, out |-> r.dirs,
                           flag_before |-> heap[1].has_refracted],
                 !.ncalls = @ + 1]
    /\ UNCHANGED <<board, phase, calls, targets, free_counts, stack, ret, result, sim>>

BlockNext == InteractCall

SpecBlock == BlockInit /\ [][BlockNext]_vars

\* C5: the first interact on a fresh Refract block returns the input
\* direction followed by its reflection and sets the flag; every later
\* interact on it finds the flag set, returns the input direction alone, and
\* leaves the flag set.
C5_RefractOneShot ==
    (heap[1].kind = "RefractBlock" /\ hist.ncalls >= 1) =>
        /\ heap[1].has_refracted
        /\ hist.call.flag_before = (hist.ncalls >= 2)
        /\ hist.call.out =
              IF hist.ncalls = 1
              THEN <<hist.call.direction,
                     reflect_beam(heap[1], hist.call.position, hist.call.direction)>>
              ELSE <<hist.call.direction>>

C5_Witness ==
    /\ heap[1].kind = "RefractBlock"
    /\ hist.ncalls = MaxInteracts
    /\ hist.call.out = <<hist.call.direction>>

\* The direction a reflection returns, read off the last interact call.
Reflected == hist.call.out[Len(hist.call.out)]

ReflectCalled ==
    /\ hist.ncalls >= 1
    /\ \/ hist.call.kind = "ReflectBlock"
       \/ hist.call.kind = "RefractBlock" /\ ~hist.call.flag_before

\* The distance from the position of the last call to the nearer of the
\* left and right sides, and to the nearer of the top and bottom sides.
NearLeftRight ==
    LET dl == Abs(hist.call.position[1] - heap[1].left)
        dr == Abs(hist.call.position[1] - heap[1].right)
    IN  IF dl <= dr THEN dl ELSE dr

NearTopBottom ==
    LET dt == Abs(hist.call.position[2] - heap[1].top)
        db == Abs(hist.call.position[2] - heap[1].bottom)
    IN  IF dt <= db THEN dt ELSE db

SideRule ==
    /\ NearLeftRight <= NearTopBottom =>
          Reflected = <<-hist.call.direction[1], hist.call.direction[2]>>
    /\ NearTopBottom < NearLeftRight =>
          Reflected = <<hist.call.direction[1], -hist.call.direction[2]>>

DiffersInOne(d, e) == (d[1] # e[1]) # (d[2] # e[2])

\* C7 as stated: for every box, position and direction the reflection differs
\* from the input in exactly one component; dx is negated when a left or right
\* side is nearest (ties included), dy when a top or bottom side is strictly
\* nearest.
C7_ReflectionRuleAsStated ==
    ReflectCalled => (SideRule /\ DiffersInOne(hist.call.direction, Reflected))

\* C7 (amended): the reflection negates dx and leaves dy when a left or right
\* side is nearest (ties with top or bottom included), negates dy and leaves
\* dx when a top or bottom side is strictly nearest; the result differs from
\* the input in exactly one component when the negated component is nonzero
\* and equals the input when it is zero.
C7_ReflectionRule ==
    ReflectCalled =>
        /\ SideRule
        /\ (hist.call.direction[1] # 0 /\ hist.call.direction[2] # 0) =>
              DiffersInOne(hist.call.direction, Reflected)
        /\ (NearLeftRight <= NearTopBottom /\ hist.call.direction[1] = 0) =>
              Reflected = hist.call.direction
        /\ (NearTopBottom < NearLeftRight /\ hist.call.direction[2] = 0) =>
              Reflected = hist.call.direction

\* A reflection at a corner of the box, where a left/right side and a
\* top/bottom side tie.
C7_Witness ==
    /\ ReflectCalled
    /\ hist.call.kind = "ReflectBlock"
    /\ hist.call.position = <<heap[1].left, heap[1].top>>
    /\ hist.call.direction = <<1, 1>>
    /\ Reflected = <<-1, 1>>

(***************************************************************************)
(* A caller that owns a board and uses it as tests/test_lazors.py,         *)
(* test_board.py and visualization_image.py do: it places and removes      *)
(* blocks, calls interact on the board's blocks, and calls test_solution,  *)
(* whose loop is followed one iteration at a time.                         *)
(***************************************************************************)
MaxPlaced == 1
MaxTrials == 3

SimScenarios ==
    { \* tests/test_lazors.py TestVisualizationImage.setUp
      Scenario(Open2x2, <<<<0, 1, 1, 0>>>>, <<<<2, 1>>>>),
      Scenario(<<<<"C", "o">>, <<"o", "x">>>>, <<<<0, 3, 1, -1>>>>, <<<<3, 0>>, <<3, 4>>>>),
      Scenario(<<<<"o", "B">>, <<"A", "o">>>>, <<<<0, 1, 1, 1>>, <<3, 4, -1, -1>>>>, <<<<3, 4>>>>),
      Scenario(<<<<"o", "o">>>>, <<<<3, 0, -1, 1>>>>, <<<<0, 1>>>>),
      \* the emitter on the right edge of a fixed Opaque block, pointing away
      Scenario(<<<<"B", "o">>>>, <<<<2, 1, 1, 1>>>>, <<<<3, 2>>>>),
      \* a fixed Opaque block on the way to the target
      Scenario(<<<<"o", "B">>>>, <<<<1, 0, 1, 1>>>>, <<<<3, 2>>>>),
      \* a target beyond the bottom edge, on the beam's line
      Scenario(<<<<"o">>>>, <<<<1, 0, 1, 1>>>>, <<<<2, 1>>, <<3, 2>>>>),
      \* the beam arrives on the corner two adjacent fixed blocks share
      Scenario(<<<<"x", "x">>, <<"B", "C">>>>, <<<<1, 1, 1, 1>>>>, <<<<2, 2>>, <<3, 4>>>>),
      \* the only target on a corner of a fixed Opaque block, two emitters
      Scenario(<<<<"x", "B">>>>, <<<<1, 1, 1, -1>>, <<0, 1, 1, 1>>>>, <<<<2, 0>>>>) }

SimInit ==
    \E sc \in SimScenarios :
        Constructed([grid |-> sc.grid,
                     blocks_available |-> [A |-> 1, B |-> 0, C |-> 0],
                     lasers |-> sc.lasers, points |-> sc.points])

\* The board has changed: what was observed of earlier test_solution calls
\* is about another board.
Forget == [hist EXCEPT !.snap = NoSnap, !.runs = {}, !.trials = 0]

\* board.place_free_block(i, j, Kind()) on a cell confirmed placeable.
PlaceFreeBlock ==
    /\ phase = "idle"
    /\ Len(board.free_blocks_placed) < MaxPlaced
    /\ \E c \in SeqToSet(RowMajor(board.orig_grid)),
          kind \in {"ReflectBlock", "OpaqueBlock", "RefractBlock"} :
          /\ is_placeable(heap, board, c[1], c[2])
          /\ \E p \in {place_free_block(heap, board, c[1], c[2], kind)} :
                /\ heap' = p.heap
                /\ board' = p.board
    /\ hist' = Forget
    /\ UNCHANGED <<phase, calls, targets, free_counts, stack, ret, result, sim>>

\* board.remove_free_block(i, j).
RemoveFreeBlock ==
    /\ phase = "idle"
    /\ \E c \in SeqToSet(RowMajor(board.orig_grid)) :
          /\ FirstAt(heap, board, c[1], c[2]) # 0
          /\ \E r \in {remove_free_block(heap, board, c[1], c[2])} :
                /\ heap' = r.heap
                /\ board' = r.board
    /\ hist' = Forget
    /\ UNCHANGED <<phase, calls, targets, free_counts, stack, ret, result, sim>>

BoxPoints(b) == (b.left..b.right) \X (b.top..b.bottom)

\* block.interact((vx, vy), (x, y)) on a block of the live board at a point
\* of its box (visualization_image.py find_lazor_endpoint, lines 18-23).
CallInteract ==
    /\ phase = "idle"
    /\ \E id \in LiveIds(board), d \in Directions :
       \E p \in BoxPoints(heap[id]) :
          /\ heap' = interact(heap, id, d, p).heap
          /\ heap' # heap
    /\ hist' = Forget
    /\ UNCHANGED <<board, phase, calls, targets, free_counts, stack, ret, result, sim>>

\* test_solution(board, set(board.points)) is called: lines 120-137.
TestSolutionCall ==
    /\ phase = "idle"
    /\ hist.trials < MaxTrials
    /\ \E st \in {StartSim(heap, board, SeqToSet(board.points))} :
          /\ heap' = st.heap
          /\ sim' = st.sim
    /\ phase' = "testing"
    /\ hist' = [hist EXCEPT
          !.trials = @ + 1,
          !.hops = {},
          !.snap = IF hist.snap.set THEN @
                   ELSE [set |-> TRUE, heap |-> heap, board |-> board]]
    /\ UNCHANGED <<board, calls, targets, free_counts, stack, ret, result>>

\* Lines 199-200: (next_x, next_y) of a beam (x, y, dx, dy, steps).
NextPosition(beam) == <<beam[1] + beam[3], beam[2] + beam[4]>>

\* One iteration of the loop of test_solution (or the final return value).
TestSolutionStep ==
    /\ phase = "testing"
    /\ sim.running
    /\ \E st \in {SimStep(heap, sim)} :
          /\ heap' = st.heap
          /\ sim' = st.sim
          /\ hist' = IF st.sim.last.op \in {"all_hit", "collision", "move"}
                     THEN [hist EXCEPT !.hops = @ \cup {NextPosition(Head(sim.beam_queue))}]
                     ELSE hist
    /\ UNCHANGED <<board, phase, calls, targets, free_counts, stack, ret, result>>

\* test_solution returns: board_copy and its blocks are dropped.
TestSolutionReturn ==
    /\ phase = "testing"
    /\ ~sim.running
    /\ heap' = Restrict(heap, LiveIds(board))
    /\ sim' = [IdleSim EXCEPT !.result = sim.result]
    /\ phase' = "idle"
    /\ hist' = [hist EXCEPT !.runs = @ \cup {sim.result}]
    /\ UNCHANGED <<board, calls, targets, free_counts, stack, ret, result>>

SimNext ==
    \/ PlaceFreeBlock
    \/ RemoveFreeBlock
    \/ CallInteract
    \/ TestSolutionCall
    \/ TestSolutionStep
    \/ TestSolutionReturn

SpecSim == SimInit /\ [][SimNext]_vars

(***************************************************************************)
(* Properties of test_solution, clone and interact on a board              *)
(***************************************************************************)

\* The board of scenario 1: the 2x2 all-open grid with one Reflect block
\* placed at cell (0,0), the emitter (0,1) with direction (1,0), the target
\* (2,1).
Scenario1Board ==
    /\ board.orig_grid = Open2x2
    /\ board.lasers = <<<<0, 1, 1, 0>>>>
    /\ board.points = <<<<2, 1>>>>
    /\ Placement(heap, board) = <<<<<<0, 0>>, "ReflectBlock">>>>

\* C4: on the board of scenario 1 test_solution returns true.
C4_Scenario1 ==
    (Scenario1Board /\ phase = "idle" /\ hist.runs # {}) => hist.runs = {TRUE}

\* C6: interact on an Opaque block returns the empty list for every direction
\* and position, whatever was called before; and an iteration of the
\* simulator whose first matching block is Opaque removes the popped beam
\* from the queue and appends nothing.
C6_OpaqueAbsorbs ==
    [][ /\ \A id \in DOMAIN heap : heap[id].kind = "OpaqueBlock" =>
              \A d \in Directions, p \in BoxPoints(heap[id]) :
                  interact(heap, id, d, p) = [heap |-> heap, dirs |-> <<>>]
        /\ (phase = "testing" /\ sim'.iter = sim.iter + 1
               /\ sim'.last.kind = "OpaqueBlock") =>
              /\ sim'.last.out = <<>>
              /\ sim'.beam_queue = Tail(sim.beam_queue)
              /\ heap' = heap ]_vars

\* A beam has hopped onto a point whose first matching block is Opaque.
C6_Witness ==
    /\ phase = "testing"
    /\ sim.last.op = "collision"
    /\ sim.last.kind = "OpaqueBlock"
    /\ sim.last.direction \in {-1, 1} \X {-1, 1}

\* The blocks of the live board: the attributes of each object it names.
LiveBlocks == Restrict(heap, LiveIds(board))

\* C8: from the call of test_solution on, during the call and after it, the
\* live board is as it was at the call: the same fixed and movable lists, and
\* every block of them with the same box, origin and refracted flag; so a
\* later trial starts from the same board as an earlier one.
C8_TrialIsolation ==
    hist.snap.set =>
        /\ board = hist.snap.board
        /\ LiveBlocks = hist.snap.heap

\* A second trial is running on a board with a Refract block that has not
\* refracted, and its clone of that block has just split a beam.
C8_Witness ==
    /\ phase = "testing"
    /\ hist.trials >= 2
    /\ sim.last.kind = "RefractBlock"
    /\ Len(sim.last.out) = 2
    /\ heap[sim.last.block].has_refracted
    /\ \E id \in LiveIds(board) :
          heap[id].kind = "RefractBlock" /\ ~heap[id].has_refracted

\* C9: the board clone() returns has the refracted flag false on every
\* Refract block, also when a Refract block of the cloned board has refracted.
C9_CloneResetsFlag ==
    (phase = "testing" /\ sim.last.op = "start") =>
        \A k \in 1..Len(sim.blocks) :
            heap[sim.blocks[k]].kind = "RefractBlock" =>
                ~heap[sim.blocks[k]].has_refracted

\* C10: all the test_solution calls made on one board (same blocks, same
\* targets), each on its own clone, return the same value.
C10_Deterministic == Cardinality(hist.runs) <= 1

\* Two trials have returned on a board with a Refract block; the trial split
\* a beam on its clone (the targets need both beams).
C10_Witness ==
    /\ phase = "idle"
    /\ hist.trials >= 2
    /\ hist.runs = {TRUE}
    /\ Len(board.points) = 2
    /\ \E id \in LiveIds(board) : heap[id].kind = "RefractBlock"

\* The first block of the trial's list whose box contains the start (x, y) of
\* the beam at the head of the queue, by the closed containment test; 0 if
\* there is none.
BlockAtStart ==
    FirstCollided(heap, sim.blocks, Head(sim.beam_queue)[1],
                  Head(sim.beam_queue)[2], 1)

\* C12: when the simulator takes up an emitter's beam (no hop made yet) whose
\* start coordinate is inside the box of some block, it calls interact on the
\* first such block of its list, at the start position, in that iteration.
C12_EmitterInteractsFirst ==
    [][ (/\ phase = "testing" /\ sim.running /\ sim.beam_queue # <<>>
         /\ sim'.iter = sim.iter + 1
         /\ Head(sim.beam_queue)[5] = 0
         /\ BlockAtStart # 0) =>
            /\ sim'.last.op = "initial"
            /\ sim'.last.block = sim.blocks[BlockAtStart]
            /\ sim'.last.position = <<Head(sim.beam_queue)[1], Head(sim.beam_queue)[2]>>
      ]_<<phase, sim.iter>>

\* The point p is within the board extents [0, 2W] x [0, 2H].
WithinExtents(p) ==
    /\ p[1] \in 0..(2 * board.orig_width)
    /\ p[2] \in 0..(2 * board.orig_height)

\* C13: in every iteration of the simulator, a beam whose next position is
\* outside [0, 2W] x [0, 2H] is removed from the queue with no target marked,
\* no interact call and no beam enqueued; every beam the iteration enqueues
\* is at a position within the extents; and a target outside the extents
\* stays in the remaining targets.
C13_BoundaryLaw ==
    [][ (/\ phase = "testing" /\ sim.running /\ sim.beam_queue # <<>>
         /\ sim'.iter = sim.iter + 1) =>
            /\ ~WithinExtents(NextPosition(Head(sim.beam_queue))) =>
                  /\ sim'.beam_queue = Tail(sim.beam_queue)
                  /\ sim'.remaining_targets = sim.remaining_targets
                  /\ sim'.last.block = 0
                  /\ heap' = heap
                  /\ sim'.running
            /\ \A k \in Len(sim.beam_queue)..Len(sim'.beam_queue) :
                  WithinExtents(<<sim'.beam_queue[k][1], sim'.beam_queue[k][2]>>)
            /\ \A t \in SeqToSet(board.points) :
                  ~WithinExtents(t) => t \in sim'.remaining_targets
      ]_<<phase, sim.iter>>

\* A beam that has made a hop is dropped at the edge of a board that has a
\* target beyond that edge.
C13_Witness ==
    /\ phase = "testing"
    /\ sim.last.op = "left_board"
    /\ hist.hops # {}
    /\ \E t \in SeqToSet(board.points) : ~WithinExtents(t) /\ t \in sim.remaining_targets

\* Every block of the live board is Opaque.
OpaqueOnly == \A id \in LiveIds(board) : heap[id].kind = "OpaqueBlock"

\* The k-th lattice point of the straight path of the board's first laser:
\* its start for k = 0, its position after k hops with nothing in the way.
PathPoint(k) ==
    <<board.lasers[1][1] + k * board.lasers[1][3],
      board.lasers[1][2] + k * board.lasers[1][4]>>

\* The board has one laser, and a target at the n-th point of its straight
\* path with a fixed Opaque block whose box contains the k-th point of the
\* path for some k with first <= k < n.
OpaqueOnPath(first) ==
    /\ Len(board.lasers) = 1
    /\ \E n \in 1..(2 * (board.orig_width + board.orig_height)) :
          /\ PathPoint(n) \in SeqToSet(board.points)
          /\ \E k \in first..(n - 1), j \in 1..Len(board.fixed_blocks) :
                /\ heap[board.fixed_blocks[j]].kind = "OpaqueBlock"
                /\ within_boundaries(heap[board.fixed_blocks[j]],
                                     PathPoint(k)[1], PathPoint(k)[2], 1)

\* C15: on a board with one laser, Opaque blocks only, and a fixed Opaque
\* block whose box contains a lattice point of the laser's straight path
\* (its start included) strictly before a target, test_solution returns
\* false.
C15_OpaqueBlocksPath ==
    (phase = "idle" /\ hist.runs # {} /\ OpaqueOnly /\ OpaqueOnPath(0)) =>
        hist.runs = {FALSE}

\* The same with the start of the path left out: the box contains a point the
\* beam reaches by at least one hop.  This holds.
OpaqueBlocksAfterHop ==
    (phase = "idle" /\ hist.runs # {} /\ OpaqueOnly /\ OpaqueOnPath(1)) =>
        hist.runs = {FALSE}

OpaqueBlocksAfterHopReached ==
    phase = "idle" /\ hist.runs = {FALSE} /\ OpaqueOnly /\ OpaqueOnPath(1)

\* C16: when test_solution returns, it returns true if and only if every
\* target is a position some beam hopped onto during the run (a next position
\* within the board, of a beam within the hop budget); and after every
\* interact call of the run one beam per returned direction is at the end of
\* the queue, at the position of the call: both branches of a Refract block
\* are propagated.
C16_Verdict ==
    phase = "testing" =>
        /\ ~sim.running =>
              (sim.result = TRUE) = (SeqToSet(board.points) \subseteq hist.hops)
        /\ sim.last.op \in {"initial", "collision"} =>
              /\ Len(sim.beam_queue) >= Len(sim.last.out)
              /\ \A k \in 1..Len(sim.last.out) :
                    \E b \in {sim.beam_queue[Len(sim.beam_queue) - Len(sim.last.out) + k]} :
                        /\ <<b[1], b[2]>> = sim.last.position
                        /\ <<b[3], b[4]>> = sim.last.out[k]

\* test_solution is returning true on a board with two targets, after a
\* Refract block of its clone split a beam.
C16_Witness ==
    /\ phase = "testing"
    /\ ~sim.running
    /\ sim.result = TRUE
    /\ Cardinality(SeqToSet(board.points)) = 2
    /\ \E k \in 1..Len(sim.blocks) :
          heap[sim.blocks[k]].kind = "RefractBlock" /\ heap[sim.blocks[k]].has_refracted

\* test_solution is returning false on a board with two targets, one of which
\* a beam hopped onto.
C16_FalseReached ==
    /\ phase = "testing"
    /\ ~sim.running
    /\ sim.result = FALSE
    /\ Cardinality(SeqToSet(board.points)) = 2
    /\ hist.hops \cap SeqToSet(board.points) # {}

(***************************************************************************)
(* Board descriptions as parse_bff_file can return them: int() accepts any *)
(* count and coordinate, and the rows are whatever the file's lines hold.  *)
(* main.py gives the description to Board and the board to solve.          *)
(***************************************************************************)
InputBudgets == [{"A", "B", "C"} -> -1..MaxBudget]

InputScenarios ==
    { \* well-formed grid and coordinates (malformed by a negative count)
      Scenario(Open2x2, <<<<0, 1, 1, 1>>>>, <<<<1, 2>>>>),
      \* a target outside the extents
      Scenario(Open2x2, <<<<0, 1, 1, 1>>>>, <<<<5, 6>>>>),
      \* an emitter outside the extents
      Scenario(Open2x2, <<<<-1, 0, 1, 1>>>>, <<<<0, 1>>>>),
      \* the second row longer than the first
      Scenario(<<<<"o">>, <<"o", "o">>>>, <<<<0, 1, 1, 1>>>>, <<<<1, 2>>>>) }

\* The description the board was built from has a negative count, rows of
\* unequal length, or an emitter or target outside [0, 2W] x [0, 2H].
Malformed ==
    \/ \E t \in {"A", "B", "C"} : board.blocks_available[t] < 0
    \/ \E r \in 1..Len(board.orig_grid) :
          Len(board.orig_grid[r]) # Len(board.orig_grid[1])
    \/ \E k \in 1..Len(board.lasers) :
          ~WithinExtents(<<board.lasers[k][1], board.lasers[k][2]>>)
    \/ \E k \in 1..Len(board.points) : ~WithinExtents(board.points[k])

InputInit ==
    \E sc \in InputScenarios, ba \in InputBudgets :
        /\ Constructed([grid |-> sc.grid, blocks_available |-> ba,
                        lasers |-> sc.lasers, points |-> sc.points])
        /\ Malformed

SpecInput == InputInit /\ [][Next]_vars

\* C21: for a malformed board description solve reports neither a record
\* nor None (the outcome is an error), no block is ever placed and
\* test_solution is never called.
C21_MalformedRejected ==
    Malformed =>
        /\ result.is \notin {"list", "None"}
        /\ board.free_blocks_placed = <<>>
        /\ hist.leaves = {}

\* The position of cell c in the row-major order of the grid.
RowMajorIndex(c) == c[1] * board.orig_width + c[2]

\* C24: the candidate list of the board holds exactly the cells of the grid
\* whose marker is none of 'x', 'A', 'B', 'C', each once, in row-major
\* order, in every state: after construction, place_free_block,
\* remove_free_block and interact calls, and during and after test_solution,
\* whose clone has the same list.
C24_CandidateCells ==
    /\ \A k \in 1..Len(board.free_positions) :
          /\ board.free_positions[k] \in Cells
          /\ Marker(board.orig_grid, board.free_positions[k])
                \notin {"x", "A", "B", "C"}
    /\ \A c \in Cells :
          Marker(board.orig_grid, c) \notin {"x", "A", "B", "C"} =>
              \E k \in 1..Len(board.free_positions) : board.free_positions[k] = c
    /\ \A k \in 1..(Len(board.free_positions) - 1) :
          RowMajorIndex(board.free_positions[k])
              < RowMajorIndex(board.free_positions[k + 1])
    /\ phase = "testing" => sim.board_copy.free_positions = board.free_positions

\* test_solution is running on a board with a fixed block, a disallowed cell
\* and a movable block.
C24_Witness ==
    /\ phase = "testing"
    /\ sim.iter > 0
    /\ board.free_blocks_placed # <<>>
    /\ board.fixed_blocks # <<>>
    /\ \E c \in Cells : Marker(board.orig_grid, c) = "x"
    /\ Len(board.free_positions) >= 2

\* The indices in sim.blocks of the blocks whose closed box contains p.
Containing(p) ==
    {k \in 1..Len(sim.blocks) : within_boundaries(heap[sim.blocks[k]], p[1], p[2], 1)}

\* sim.blocks is the fixed blocks in row-major order of their cells, then
\* the movable blocks in the order the live board's list holds them.
BlocksInScanOrder ==
    LET bc == sim.board_copy
        nf == Len(bc.fixed_blocks)
        cell(k) == heap[sim.blocks[k]].orig_pos
    IN  /\ sim.blocks = bc.fixed_blocks \o bc.free_blocks_placed
        /\ \A k \in 1..nf : heap[sim.blocks[k]].fixed
        /\ \A k, m \in 1..nf :
              k < m => cell(k)[1] * bc.orig_width + cell(k)[2]
                         < cell(m)[1] * bc.orig_width + cell(m)[2]
        /\ Len(bc.free_blocks_placed) = Len(board.free_blocks_placed)
        /\ \A k \in 1..Len(board.free_blocks_placed) :
              /\ ~heap[sim.blocks[nf + k]].fixed
              /\ cell(nf + k) = heap[board.free_blocks_placed[k]].orig_pos

\* C26: in a loop iteration of test_solution that hops onto a position, at
\* most one block interacts: the first block, in the order fixed blocks
\* (row-major) then movable blocks (placement order), whose closed box
\* contains the position; every other block, also one that contains the
\* position too, is left as it was, and an iteration without a collision
\* changes no block.
C26_CollisionPriority ==
    [][(phase = "testing" /\ sim'.iter = sim.iter + 1) =>
         /\ sim'.last.op = "collision" =>
              \E p \in {NextPosition(Head(sim.beam_queue))} :
                 /\ sim'.last.position = p
                 /\ BlocksInScanOrder
                 /\ \E k \in Containing(p) :
                       /\ \A m \in Containing(p) : k <= m
                       /\ sim'.last.block = sim.blocks[k]
                 /\ \A id \in DOMAIN heap :
                       id # sim'.last.block => heap'[id] = heap[id]
         /\ sim'.last.op \notin {"collision", "initial"} => heap' = heap
      ]_<<phase, sim.iter>>

\* A fixed Opaque block has just interacted at a position that a Refract
\* block later in the scan order contains too, and that Refract block has
\* not refracted.
C26_Witness ==
    /\ phase = "testing"
    /\ sim.last.op = "collision"
    /\ sim.last.kind = "OpaqueBlock"
    /\ heap[sim.last.block].fixed
    /\ \E k \in Containing(sim.last.position) :
          /\ sim.blocks[k] # sim.last.block
          /\ heap[sim.blocks[k]].kind = "RefractBlock"
          /\ ~heap[sim.blocks[k]].fixed
          /\ ~heap[sim.blocks[k]].has_refracted

\* C30: in a loop iteration of test_solution that hops onto a position, a
\* remaining target at that position is marked hit whether or not a block
\* contains the position; and when that empties the target set the call
\* returns true in that iteration: no block interacts and, the call being
\* no longer running, no further beam is popped.
C30_TargetFirst ==
    [][(phase = "testing" /\ sim'.iter = sim.iter + 1
          /\ sim'.last.op \in {"all_hit", "collision", "move"}) =>
         \E p \in {NextPosition(Head(sim.beam_queue))} :
            /\ sim'.remaining_targets = sim.remaining_targets \ {p}
            /\ (p \in sim.remaining_targets /\ sim.remaining_targets \ {p} = {}) =>
                  /\ sim'.last.op = "all_hit"
                  /\ ~sim'.running
                  /\ sim'.result = TRUE
                  /\ heap' = heap
                  /\ sim'.beam_queue = Tail(sim.beam_queue)
            /\ sim'.last.op = "all_hit" =>
                  (p \in sim.remaining_targets /\ sim.remaining_targets \ {p} = {})
      ]_<<phase, sim.iter>>

\* test_solution is returning true after a beam hopped onto the last
\* target, which lies on the box of an Opaque block, while another beam is
\* still in the queue.
C30_Witness ==
    /\ phase = "testing"
    /\ ~sim.running
    /\ sim.result = TRUE
    /\ sim.last.op = "all_hit"
    /\ sim.beam_queue # <<>>
    /\ \E t \in SeqToSet(board.points) :
          /\ t \in hist.hops
          /\ \E k \in 1..Len(sim.blocks) :
                /\ heap[sim.blocks[k]].kind = "OpaqueBlock"
                /\ within_boundaries(heap[sim.blocks[k]], t[1], t[2], 1)

\* A beam has hopped onto a target on the box of an Opaque block, which
\* absorbed it: the target is marked hit and another target remains.
C30_MarkedThenAbsorbed ==
    /\ phase = "testing"
    /\ sim.last.op = "collision"
    /\ sim.last.kind = "OpaqueBlock"
    /\ sim.last.position \in SeqToSet(board.points)
    /\ sim.last.position \notin sim.remaining_targets
    /\ sim.remaining_targets # {}

\* C31: in a run of test_solution every beam in the queue has a hop count
\* in 0..max_steps: the beams the call starts with have 0, a beam put on
\* the queue by an iteration has the hop count of the popped beam plus 1,
\* and a beam popped with hop count >= max_steps is dropped: nothing is
\* put on the queue, no target is marked and no block interacts.
C31_HopBudget ==
    [][/\ (phase = "idle" /\ phase' = "testing") =>
             \A k \in 1..Len(sim'.beam_queue) : sim'.beam_queue[k][5] = 0
       /\ (phase = "testing" /\ sim'.iter = sim.iter + 1) =>
             \E beam \in {Head(sim.beam_queue)}, n \in {Len(sim.beam_queue)} :
                /\ \A k \in 1..Len(sim'.beam_queue) :
                      sim'.beam_queue[k][5] \in 0..max_steps
                /\ Len(sim'.beam_queue) >= n - 1
                /\ SubSeq(sim'.beam_queue, 1, n - 1) = Tail(sim.beam_queue)
                /\ \A k \in n..Len(sim'.beam_queue) :
                      sim'.beam_queue[k][5] = beam[5] + 1
                /\ beam[5] >= max_steps =>
                      /\ sim'.beam_queue = Tail(sim.beam_queue)
                      /\ sim'.remaining_targets = sim.remaining_targets
                      /\ heap' = heap
                      /\ sim'.last.op = "max_steps"
                      /\ sim'.running
      ]_<<phase, sim.iter>>

\* A beam with hop count max_steps has just been dropped.
C31_Witness ==
    /\ phase = "testing"
    /\ sim.last.op = "max_steps"
    /\ sim.iter > max_steps

Diagonal(d) == d[1] \in {-1, 1} /\ d[2] \in {-1, 1}

\* x + y is odd.
OddPoint(p) == (p[1] + p[2]) % 2 = 1

\* p is the midpoint of an edge of the box of block b.
EdgeMidpoint(b, p) ==
    \/ (p[1] \in {b.left, b.right} /\ p[2] = b.top + 1)
    \/ (p[2] \in {b.top, b.bottom} /\ p[1] = b.left + 1)

\* In reflect_beam at p the least distance is both a distance to the left or
\* right side and a distance to the top or bottom side, and the first test
\* (flip dx) decides.
TieBreak(b, p) ==
    LET dl == Abs(p[1] - b.left)
        dr == Abs(p[1] - b.right)
        dt == Abs(p[2] - b.top)
        db == Abs(p[2] - b.bottom)
        dmin == Min4(dl, dr, dt, db)
    IN  (dmin = dl \/ dmin = dr) /\ (dmin = dt \/ dmin = db)

\* C33: in an iteration of test_solution that pops a diagonal beam, every
\* beam put on the queue is diagonal and at a position with the parity of
\* x + y of the popped beam (so every beam keeps the parity of the emitter it
\* descends from); and when the popped beam's x + y is odd and a block
\* interacts, the position given to interact is the midpoint of an edge of
\* that block's box, where reflect_beam has no tie between a horizontal and
\* a vertical side.
C33_BeamParity ==
    [][(phase = "testing" /\ sim'.iter = sim.iter + 1
          /\ Diagonal(<<Head(sim.beam_queue)[3], Head(sim.beam_queue)[4]>>)) =>
         \E beam \in {Head(sim.beam_queue)}, n \in {Len(sim.beam_queue)} :
            /\ \A k \in n..Len(sim'.beam_queue) :
                  \E b \in {sim'.beam_queue[k]} :
                     /\ Diagonal(<<b[3], b[4]>>)
                     /\ OddPoint(<<b[1], b[2]>>) = OddPoint(<<beam[1], beam[2]>>)
            /\ (OddPoint(<<beam[1], beam[2]>>)
                  /\ sim'.last.op \in {"initial", "collision"}) =>
                  /\ OddPoint(sim'.last.position)
                  /\ EdgeMidpoint(heap[sim'.last.block], sim'.last.position)
                  /\ ~TieBreak(heap[sim'.last.block], sim'.last.position)
      ]_<<phase, sim.iter>>

\* A diagonal beam with odd x + y has just been reflected by a Reflect block
\* after at least one hop.
C33_Witness ==
    /\ phase = "testing"
    /\ sim.last.op = "collision"
    /\ sim.last.kind = "ReflectBlock"
    /\ Diagonal(sim.last.direction)
    /\ OddPoint(sim.last.position)
    /\ sim.beam_queue # <<>>

\* The Refract blocks of the running test_solution's copy that have split a
\* beam (has_refracted is set).
RefractedBlocks ==
    {k \in 1..Len(sim.blocks) :
        /\ heap[sim.blocks[k]].kind = "RefractBlock"
        /\ heap[sim.blocks[k]].has_refracted}

RefractBlocks ==
    {k \in 1..Len(sim.blocks) : heap[sim.blocks[k]].kind = "RefractBlock"}

\* C34: while test_solution runs, the queue holds at most one beam per emitter
\* and one more per Refract block (fixed or movable) whose flag is set, hence
\* at most emitters + Refract blocks; an iteration makes the queue longer only
\* when a Refract block whose flag was clear interacts, and that sets the
\* flag; a set flag is never cleared during the run.
C34_BeamPopulation ==
    /\ [](phase = "testing" =>
            /\ Len(sim.beam_queue) <= Len(board.lasers) + Cardinality(RefractedBlocks)
            /\ Len(sim.beam_queue) <= Len(board.lasers) + Cardinality(RefractBlocks))
    /\ [][(phase = "testing" /\ sim'.iter = sim.iter + 1) =>
            /\ Len(sim'.beam_queue) <= Len(sim.beam_queue) + 1
            /\ Len(sim'.beam_queue) > Len(sim.beam_queue) =>
                  /\ sim'.last.op \in {"initial", "collision"}
                  /\ sim'.last.kind = "RefractBlock"
                  /\ ~heap[sim'.last.block].has_refracted
                  /\ heap'[sim'.last.block].has_refracted
                  /\ Len(sim'.last.out) = 2
            /\ \A k \in 1..Len(sim.blocks) :
                  (heap[sim.blocks[k]].kind = "RefractBlock"
                     /\ heap[sim.blocks[k]].has_refracted) =>
                        heap'[sim.blocks[k]].has_refracted
         ]_<<phase, sim.iter>>

\* A Refract block has split a beam and the queue holds as many beams as
\* there are emitters and Refract blocks.
C34_Witness ==
    /\ phase = "testing"
    /\ sim.last.op = "collision"
    /\ sim.last.kind = "RefractBlock"
    /\ Len(sim.last.out) = 2
    /\ Len(sim.beam_queue) = Len(board.lasers) + Cardinality(RefractBlocks)
    /\ Len(sim.beam_queue) >= 2

\* The index of cell c in the candidate list positions = board.free_positions
\* (0 when c is not a candidate cell).
CandidateIndex(c) ==
    IF \E k \in 1..Len(board.free_positions) : board.free_positions[k] = c
    THEN CHOOSE k \in 1..Len(board.free_positions) : board.free_positions[k] = c
    ELSE 0

\* The list pl of (cell, class) pairs is in strictly increasing order of
\* candidate index, and in row-major order of its cells.
SortedByCandidate(pl) ==
    /\ \A k \in 1..Len(pl) : CandidateIndex(pl[k][1]) > 0
    /\ \A k \in 1..(Len(pl) - 1) :
          /\ CandidateIndex(pl[k][1]) < CandidateIndex(pl[k + 1][1])
          /\ RowMajorIndex(pl[k][1]) < RowMajorIndex(pl[k + 1][1])

\* C35: in every state of a solve call on a board whose movable list was
\* empty at the call, the movable list is in strictly increasing order of
\* candidate-cell index (row-major cell order), and so was every list given
\* to test_solution: two lists over the same cells hold them in the same order.
C35_MovableOrder ==
    (phase = "solving" /\ hist.at_call = <<>>) =>
        /\ SortedByCandidate(Placement(heap, board))
        /\ \A k \in 1..Len(hist.visits) : SortedByCandidate(hist.visits[k])
        /\ \A k \in 1..Len(hist.visits) :
              {hist.visits[k][n][1] : n \in 1..Len(hist.visits[k])}
                 = {Placement(heap, board)[n][1] : n \in 1..Len(board.free_blocks_placed)}
              => [n \in 1..Len(hist.visits[k]) |-> hist.visits[k][n][1]]
                    = [n \in 1..Len(board.free_blocks_placed) |->
                         Placement(heap, board)[n][1]]

\* A solve call on a fresh board holds two movable blocks after it has undone
\* a move and given a placement to test_solution.
C35_Witness ==
    /\ phase = "solving"
    /\ hist.at_call = <<>>
    /\ Len(board.free_blocks_placed) >= 2
    /\ Len(hist.visits) >= 2
    /\ \E k \in 1..Len(hist.visits) :
          /\ Len(hist.visits[k]) >= 2
          /\ hist.visits[k] # Placement(heap, board)

\* C36: test_solution marks a target only in an iteration that hops, and only
\* the target at the position hopped onto: the call itself marks nothing, so a
\* target at an emitter's start is still to be hit when the emitter's beam
\* (no hop made yet) has been taken up; and when a block interacts with a beam
\* at its initial position, the beams appended are at that same start
\* position, one per returned direction in order, each with hop count 1, and
\* no target is marked.
C36_StartNotHit ==
    [][/\ (phase = "idle" /\ phase' = "testing") =>
             /\ sim'.remaining_targets = SeqToSet(board.points)
             /\ \A k \in 1..Len(sim'.beam_queue) :
                   sim'.beam_queue[k] = board.lasers[k] \o <<0>>
       /\ (phase = "testing" /\ sim.running /\ sim'.iter = sim.iter + 1) =>
             \E beam \in {Head(sim.beam_queue)} :
                /\ sim'.remaining_targets \subseteq sim.remaining_targets
                /\ sim.remaining_targets \ sim'.remaining_targets
                      \subseteq {NextPosition(beam)}
                /\ sim'.last.op \in {"initial", "max_steps", "left_board"} =>
                      sim'.remaining_targets = sim.remaining_targets
                /\ (beam[5] = 0 /\ <<beam[1], beam[2]>> \in sim.remaining_targets) =>
                      <<beam[1], beam[2]>> \in sim'.remaining_targets
                /\ sim'.last.op = "initial" =>
                      /\ beam[5] = 0
                      /\ sim'.last.position = <<beam[1], beam[2]>>
                      /\ sim'.beam_queue = Tail(sim.beam_queue) \o
                            [k \in 1..Len(sim'.last.out) |->
                               <<beam[1], beam[2], sim'.last.out[k][1],
                                 sim'.last.out[k][2], 1>>]
      ]_<<phase, sim.iter>>

\* A block has interacted with an emitter's beam at its start, which is the
\* coordinate of a target still to be hit, and the beam is back on the queue.
C36_Witness ==
    /\ phase = "testing"
    /\ sim.last.op = "initial"
    /\ sim.last.out # <<>>
    /\ sim.last.position \in sim.remaining_targets
    /\ \E k \in 1..Len(board.lasers) :
          <<board.lasers[k][1], board.lasers[k][2]>> = sim.last.position
    /\ sim.beam_queue # <<>>
    /\ sim.beam_queue[Len(sim.beam_queue)][5] = 1

(***************************************************************************)
(* test_solution run to its end: the loop of lines 139-256 is not          *)
(* interrupted, so an iteration that can be taken is taken.                *)
(***************************************************************************)

LiveScenarios ==
    { \* the beam circles the box of a fixed Reflect block, hop after hop
      Scenario(<<<<"A", "A">>>>, <<<<2, 1, 1, 1>>>>, <<<<3, 2>>>>),
      \* a fixed Refract block splits the beam
      Scenario(<<<<"C", "o">>, <<"o", "x">>>>, <<<<0, 3, 1, -1>>>>, <<<<3, 0>>, <<3, 4>>>>),
      \* two emitters, a Reflect and an Opaque block
      Scenario(<<<<"o", "B">>, <<"A", "o">>>>, <<<<0, 1, 1, 1>>, <<3, 4, -1, -1>>>>, <<<<3, 4>>>>),
      \* no block: the beam reaches the target
      Scenario(<<<<"o", "o">>>>, <<<<3, 0, -1, 1>>>>, <<<<1, 2>>>>) }

LiveInit ==
    \E sc \in LiveScenarios :
        Constructed([grid |-> sc.grid,
                     blocks_available |-> [A |-> 1, B |-> 0, C |-> 0],
                     lasers |-> sc.lasers, points |-> sc.points])

\* The caller only calls test_solution, again and again.
LiveNext ==
    \/ TestSolutionCall
    \/ TestSolutionStep
    \/ TestSolutionReturn

\* "while beam_queue:" runs on: a loop iteration (or the final return) that
\* stays possible is eventually executed.
SpecSimLive ==
    LiveInit /\ [][LiveNext]_vars /\ WF_<<sim.iter, sim.running>>(TestSolutionStep)

\* The Refract blocks of the board copy: each splits a beam at most once.
RefractCount == Cardinality({k \in 1..Len(sim.blocks) : heap[sim.blocks[k]].kind = "RefractBlock"})

\* A beam is popped with steps 0..max_steps, and there is at most one beam
\* per emitter and one more per Refract block.
IterBound == (max_steps + 1) * (Len(board.lasers) + RefractCount)

\* The board [[A, A]]: two fixed Reflect blocks side by side.
CycleBoard == board.orig_grid = <<<<"A", "A">>>>

\* Every emitter is diagonal and starts within the board's extents.
DiagonalEmitters ==
    \A k \in 1..Len(board.lasers) :
        /\ board.lasers[k][3] \in {-1, 1}
        /\ board.lasers[k][4] \in {-1, 1}
        /\ WithinExtents(<<board.lasers[k][1], board.lasers[k][2]>>)

\* C32: the hop budget is reached.  On the board [[A, A]] with the diagonal
\* emitter (2,1,1,1) every iteration of test_solution is an interaction with
\* a Reflect block that returns one direction (the beam never leaves the
\* board, is never absorbed and never split) until the beam is popped with
\* hop count max_steps and dropped; the call then returns false through the
\* final return, as every call that returns false does.
C32_BudgetReached ==
    /\ (CycleBoard /\ phase = "testing") =>
          /\ DiagonalEmitters
          /\ sim.last.op \in {"start", "initial", "collision", "max_steps", "drained"}
          /\ sim.last.op \in {"initial", "collision"} =>
                (sim.last.kind = "ReflectBlock" /\ Len(sim.last.out) = 1)
          /\ sim.last.op = "max_steps" => sim.iter = max_steps + 1
          /\ sim.iter <= max_steps + 1
          /\ ~sim.running => (sim.result = FALSE /\ sim.iter = max_steps + 1)
    /\ (phase = "testing" /\ ~sim.running /\ sim.result = FALSE) =>
          (sim.last.op = "drained" /\ sim.remaining_targets # {})

\* test_solution is returning false on the board [[A, A]] after the beam
\* was dropped at hop count max_steps; its target is within the extents.
C32_Witness ==
    /\ CycleBoard
    /\ DiagonalEmitters
    /\ phase = "testing"
    /\ ~sim.running
    /\ sim.result = FALSE
    /\ sim.iter = max_steps + 1
    /\ \A k \in 1..Len(board.points) : WithinExtents(board.points[k])


\* C25: every run of test_solution ends: the number of loop iterations of a
\* run never exceeds (max_steps + 1) per beam, and a run that has not yet
\* returned leads to its return (queue drained, or all targets hit), also on
\* a board where the beam bounces on Reflect blocks without end.
C25_Terminates ==
    /\ [](phase = "testing" => sim.iter <= IterBound)
    /\ (phase = "testing" /\ sim.running) ~> (phase = "testing" /\ ~sim.running)

\* A run has returned after a beam was cut at max_steps hops.
C25_Witness ==
    /\ phase = "testing"
    /\ ~sim.running
    /\ sim.result = FALSE
    /\ sim.iter > max_steps
    /\ \E k \in 1..Len(sim.blocks) : heap[sim.blocks[k]].kind = "ReflectBlock"

====
